---------------------------- MODULE Spec2Model ----------------------------
(***************************************************************************)
(* Model of terraform-provider-mongodb-driver: the identity codec          *)
(* (userAndDB / roleAndDB), the resource-union codec (ResourceWrapper),    *)
(* the selective state merge (applyUser / applyRole), the resource         *)
(* handlers with their command chain, and the lazily connecting Client.    *)
(*                                                                         *)
(* Go strings are sequences of one-character strings, "" is << >>.         *)
(***************************************************************************)
EXTENDS Naturals, Integers, Sequences, FiniteSets, TLC

VARIABLES
    idModel,      \* identity codec: the model handed to userAndDB / roleAndDB
    idResult,     \* identity codec: what the call returned
    wire,         \* union codec: the raw BSON value being sent or received
    wireSrc,      \* union codec: who produced the value ("marshal" or "server")
    sent,         \* union codec: the Union that MarshalBSONValue encoded
    Union,        \* union codec: the field Union of the ResourceWrapper r
    prevUnion,    \* union codec: r.Union when UnmarshalBSONValue was entered
    codecErr,     \* union codec: the error UnmarshalBSONValue returned
    phase,        \* union codec: "start", "wired", "target", "decoded"
    mKind,        \* merge: "user" or "role"
    mPrior,       \* merge: the model before applyUser / applyRole
    mFetched,     \* merge: the mongodb.User / mongodb.Role handed to it
    mData,        \* merge: the model (the receiver *u)
    mOutcome,     \* merge: "none", "ok", "error" (returned) or "panic"
    mMerges,      \* merge: how many times the fetched entity was merged into the model
    hKind,        \* handlers: the resource under management, "user" or "role"
    tfState,      \* handlers: the persisted declarative state of the resource
    srv,          \* handlers: the entity the database holds under its identity
    hOp,          \* handlers: the last operation of the host
    hOutcome,     \* handlers: "ok", "error" (a diagnostic) or "panic"
    hDiag,        \* handlers: the summary of the error diagnostic, "" if none
    hCmds,        \* handlers: the commands the last operation ran, in order
    hData,        \* handlers: the plan or state the last request carried
    hErr,         \* handlers: the error the client call returned, << >> for nil
    hFetched,     \* handlers: the entity the last operation handed to the merge
    pModel,       \* privilege: the declared PrivilegeResourceModel, if one was declared
    pWire,        \* privilege: the mongodb.Privilege sent, or the one fetched
    pState,       \* privilege: what toTypesPrivilegeResource returned
    pStep,        \* privilege: "declared", "sent", "fetched", "merged"
    dConfig,      \* users data source: the configuration (db and filter)
    dUsers,       \* users data source: the users the database holds
    dState,       \* users data source: the state resp.State holds
    dDiag,        \* users data source: the summary of the error diagnostic, "" if none
    dErr,         \* users data source: the error the listing returned, << >> for nil
    dOp,          \* users data source: "none" or "Read"
    connectOnce,  \* client: the sync.Once, "fresh", "running" or "done"
    client,       \* client: c.client, "nil" or "handle"
    connectErr,   \* client: c.connectErr, "" for nil
    attempts,     \* client: how many times the connect-and-ping sequence began
    calls,        \* client: how many operations were invoked
    pc,           \* client: where each caller is in its operation
    arrived,      \* client: the state of connectOnce when the caller's operation began
    seen          \* client: what c.connect last returned to each caller

idVars == <<idModel, idResult>>

codecVars == <<wire, wireSrc, sent, Union, prevUnion, codecErr, phase>>

mergeVars == <<mKind, mPrior, mFetched, mData, mOutcome, mMerges>>

handlerVars == <<hKind, tfState, srv, hOp, hOutcome, hDiag, hCmds, hData, hErr, hFetched>>

clientVars == <<connectOnce, client, connectErr, attempts, calls, pc, arrived, seen>>

privVars == <<pModel, pWire, pState, pStep>>

dataVars == <<dConfig, dUsers, dState, dDiag, dErr, dOp>>

vars == <<idVars, codecVars, mergeVars, handlerVars, clientVars, privVars, dataVars>>

notIdVars == <<codecVars, mergeVars, handlerVars, clientVars, privVars, dataVars>>

notCodecVars == <<idVars, mergeVars, handlerVars, clientVars, privVars, dataVars>>

notMergeVars == <<idVars, codecVars, handlerVars, clientVars, privVars, dataVars>>

notHandlerVars == <<idVars, codecVars, mergeVars, clientVars, privVars, dataVars>>

notClientVars == <<idVars, codecVars, mergeVars, handlerVars, privVars, dataVars>>

notPrivVars == <<idVars, codecVars, mergeVars, handlerVars, clientVars, dataVars>>

notDataVars == <<idVars, codecVars, mergeVars, handlerVars, clientVars, privVars>>

(***************************************************************************)
(* Bounds                                                                  *)
(***************************************************************************)
MaxIdLen == 4

MaxAttrLen == 1

Chars == {"a", "b", "."}

RECURSIVE StringsUpTo(_)
StringsUpTo(n) ==
    IF n = 0 THEN {<< >>}
    ELSE LET shorter == StringsUpTo(n - 1)
         IN  shorter \cup {Append(s, c) : s \in {t \in shorter : Len(t) = n - 1}, c \in Chars}

(***************************************************************************)
(* types.String of the plugin framework: null, or a known value            *)
(***************************************************************************)
StringNull == [null |-> TRUE, v |-> << >>]

StringValue(s) == [null |-> FALSE, v |-> s]

IsNull(x) == x.null

ValueString(x) == IF x.null THEN << >> ELSE x.v

NullableStrings(n) == {StringNull} \cup {StringValue(s) : s \in StringsUpTo(n)}

(***************************************************************************)
(* strings.Cut(s, "."): the text before and after the first separator      *)
(***************************************************************************)
Sep == "."

HasSep(s) == \E i \in 1..Len(s) : s[i] = Sep

FirstSep(s) == CHOOSE i \in 1..Len(s) : s[i] = Sep /\ \A j \in 1..(i - 1) : s[j] # Sep

\* Mutant: the text is cut at its last separator.
CutLast(s) ==
    IF HasSep(s)
    THEN LET i == CHOOSE k \in 1..Len(s) : s[k] = Sep /\ \A j \in (k + 1)..Len(s) : s[j] # Sep
         IN  [before |-> SubSeq(s, 1, i - 1), after |-> SubSeq(s, i + 1, Len(s)), found |-> TRUE]
    ELSE [before |-> s, after |-> << >>, found |-> FALSE]

Cut(s) ==
    IF HasSep(s)
    THEN [before |-> SubSeq(s, 1, FirstSep(s) - 1),
          after  |-> SubSeq(s, FirstSep(s) + 1, Len(s)),
          found  |-> TRUE]
    ELSE [before |-> s, after |-> << >>, found |-> FALSE]

(***************************************************************************)
(* The composite identity the server reports as _id: database "." name     *)
(***************************************************************************)
Format(name, db) == db \o <<Sep>> \o name

(***************************************************************************)
(* userAndDB / roleAndDB.  The result carries the error ("" when nil) and  *)
(* the two returned strings.                                               *)
(***************************************************************************)
IdOk(name, db) == [err |-> "", name |-> name, db |-> db]

IdErr(e) == [err |-> e, name |-> << >>, db |-> << >>]

\* Mutant: a model that carries an id is resolved from the id.
ResolveIdentityIdFirst(nameAttr, dbAttr, idAttr, what) ==
    IF /\ (IsNull(idAttr) \/ ValueString(idAttr) = << >>)
       /\ ~IsNull(nameAttr) /\ ~IsNull(dbAttr)
       /\ ValueString(nameAttr) # << >> /\ ValueString(dbAttr) # << >>
    THEN IdOk(ValueString(nameAttr), ValueString(dbAttr))
    ELSE IF IsNull(idAttr) \/ ValueString(idAttr) = << >>
    THEN IdErr("missing " \o what \o " ID")
    ELSE LET c == Cut(ValueString(idAttr))
         IN  IF ~c.found THEN IdErr("malformed " \o what \o " ID, missing dot separator")
             ELSE IF c.before = << >> THEN IdErr("malformed " \o what \o " ID, missing db")
             ELSE IF c.after = << >> THEN IdErr("malformed " \o what \o " ID, missing " \o what)
             ELSE IdOk(c.after, c.before)

\* Mutant: the two halves of the split id are returned in the wrong order.
ResolveIdentitySwapped(nameAttr, dbAttr, idAttr, what) ==
    IF /\ ~IsNull(nameAttr) /\ ~IsNull(dbAttr)
       /\ ValueString(nameAttr) # << >> /\ ValueString(dbAttr) # << >>
    THEN IdOk(ValueString(nameAttr), ValueString(dbAttr))
    ELSE IF IsNull(idAttr) \/ ValueString(idAttr) = << >>
    THEN IdErr("missing " \o what \o " ID")
    ELSE LET c == Cut(ValueString(idAttr))
         IN  IF ~c.found THEN IdErr("malformed " \o what \o " ID, missing dot separator")
             ELSE IF c.before = << >> THEN IdErr("malformed " \o what \o " ID, missing db")
             ELSE IF c.after = << >> THEN IdErr("malformed " \o what \o " ID, missing " \o what)
             ELSE IdOk(c.before, c.after)

\* Mutant: the check for an empty name after the separator is forgotten.
ResolveIdentityNoNameCheck(nameAttr, dbAttr, idAttr, what) ==
    IF /\ ~IsNull(nameAttr) /\ ~IsNull(dbAttr)
       /\ ValueString(nameAttr) # << >> /\ ValueString(dbAttr) # << >>
    THEN IdOk(ValueString(nameAttr), ValueString(dbAttr))
    ELSE IF IsNull(idAttr) \/ ValueString(idAttr) = << >>
    THEN IdErr("missing " \o what \o " ID")
    ELSE LET c == Cut(ValueString(idAttr))
         IN  IF ~c.found THEN IdErr("malformed " \o what \o " ID, missing dot separator")
             ELSE IF c.before = << >> THEN IdErr("malformed " \o what \o " ID, missing db")
             ELSE IdOk(c.after, c.before)

ResolveIdentity(nameAttr, dbAttr, idAttr, what) ==
    IF /\ ~IsNull(nameAttr) /\ ~IsNull(dbAttr)
       /\ ValueString(nameAttr) # << >> /\ ValueString(dbAttr) # << >>
    THEN IdOk(ValueString(nameAttr), ValueString(dbAttr))
    ELSE IF IsNull(idAttr) \/ ValueString(idAttr) = << >>
    THEN IdErr("missing " \o what \o " ID")
    ELSE LET c == Cut(ValueString(idAttr))
         IN  IF ~c.found THEN IdErr("malformed " \o what \o " ID, missing dot separator")
             ELSE IF c.before = << >> THEN IdErr("malformed " \o what \o " ID, missing db")
             ELSE IF c.after = << >> THEN IdErr("malformed " \o what \o " ID, missing " \o what)
             ELSE IdOk(c.after, c.before)

userAndDB(u) == ResolveIdentity(u.User, u.DB, u.ID, "user")

roleAndDB(u) == ResolveIdentity(u.Role, u.DB, u.ID, "role")

(***************************************************************************)
(* Go slices and maps that may be nil (a null attribute decodes to nil, a  *)
(* declared empty collection to a non-nil empty one).                      *)
(***************************************************************************)
Nil == [nil |-> TRUE, v |-> << >>]

NonNil(c) == [nil |-> FALSE, v |-> c]

BoolNull == [null |-> TRUE, v |-> FALSE]

BoolValue(b) == [null |-> FALSE, v |-> b]

(***************************************************************************)
(* conv.go                                                                 *)
(***************************************************************************)
\* make([]types.String, len(slice)) and one StringValue per element
toTypesStringSlice(slice) == NonNil([i \in 1..Len(slice) |-> StringValue(slice[i])])

\* make(map[string]types.String, len(m)) and one StringValue per key
toTypesStringMap(m) == NonNil([k \in DOMAIN m |-> StringValue(m[k])])

fromTypesStringSlice(slice) == [i \in 1..Len(slice.v) |-> ValueString(slice.v[i])]

fromTypesStringMap(m) == [k \in DOMAIN m.v |-> ValueString(m.v[k])]

(***************************************************************************)
(* Role references of the model: toTypesUserRoleResource and               *)
(* toTypesRoleRefResource are the same function on two struct types.       *)
(***************************************************************************)
\* Mutant: the database is dropped where it was declared and kept where it
\* was not.
toTypesRoleRefResourceFlipped(oldRole, role) ==
    LET newRole == [Role |-> StringValue(role.Role), DB |-> StringValue(role.DB)]
    IN  IF IsNull(oldRole.DB) THEN newRole ELSE [newRole EXCEPT !.DB = StringNull]

toTypesRoleRefResource(oldRole, role) ==
    LET newRole == [Role |-> StringValue(role.Role), DB |-> StringValue(role.DB)]
    IN  IF IsNull(oldRole.DB) THEN [newRole EXCEPT !.DB = StringNull] ELSE newRole

\* result[i] = toTypesRoleRefResource(oldRoles[i], role) for every fetched
\* role: oldRoles[i] is an index out of range, a run-time panic, as soon as
\* the fetched list is longer than the old one.
toTypesRoleRefResourceSlice(oldRoles, roles) ==
    IF Len(roles) > Len(oldRoles.v)
    THEN [panic |-> TRUE, v |-> Nil]
    ELSE [panic |-> FALSE,
          v |-> NonNil([i \in 1..Len(roles) |-> toTypesRoleRefResource(oldRoles.v[i], roles[i])])]

toTypesUserRoleResourceSlice(oldRoles, roles) == toTypesRoleRefResourceSlice(oldRoles, roles)

(***************************************************************************)
(* Privileges of the model                                                 *)
(***************************************************************************)
ResourceModelZero ==
    [Cluster |-> BoolNull, AnyResource |-> BoolNull, DB |-> StringNull, Collection |-> StringNull]

toTypesResourceResource(resource) ==
    CASE resource.type = "ResourceCluster" ->
            [err |-> "", v |-> [ResourceModelZero EXCEPT !.Cluster = BoolValue(resource.Cluster)]]
      [] resource.type = "ResourceAny" ->
            [err |-> "", v |-> [ResourceModelZero EXCEPT !.AnyResource = BoolValue(resource.AnyResource)]]
      [] resource.type = "ResourceCollection" ->
            [err |-> "", v |-> [ResourceModelZero EXCEPT !.DB = StringValue(resource.DB),
                                                        !.Collection = StringValue(resource.Collection)]]
      [] OTHER ->
            [err |-> "unsupported resource type: " \o resource.type, v |-> ResourceModelZero]

toTypesPrivilegeResource(priv) ==
    LET resource == toTypesResourceResource(priv.Resource)
    IN  IF resource.err # ""
        THEN [err |-> resource.err, v |-> [Resource |-> ResourceModelZero, Actions |-> Nil]]
        ELSE [err |-> "", v |-> [Resource |-> resource.v, Actions |-> toTypesStringSlice(priv.Actions)]]

toTypesPrivilegeResourceSlice(privileges) ==
    LET conv == [i \in 1..Len(privileges) |-> toTypesPrivilegeResource(privileges[i])]
        bad  == {i \in 1..Len(privileges) : conv[i].err # ""}
    IN  IF bad # {}
        THEN [err |-> conv[CHOOSE i \in bad : \A j \in bad : i <= j].err, v |-> Nil]
        ELSE [err |-> "", v |-> NonNil([i \in 1..Len(privileges) |-> conv[i].v])]

(***************************************************************************)
(* applyUser and applyRole: the assignments in program order.  A panic or  *)
(* an error leaves the assignments made before it in *u.                   *)
(***************************************************************************)
Applied(u, outcome, err) == [data |-> u, outcome |-> outcome, err |-> err]

\* Mutant: the merge refreshes every collection, declared or not.
applyUserAlways(u, user) ==
    LET roles == toTypesUserRoleResourceSlice(u.Roles, user.Roles)
    IN  IF roles.panic THEN Applied(u, "panic", "index out of range")
        ELSE Applied([u EXCEPT !.ID = StringValue(user.ID), !.User = StringValue(user.User),
                               !.DB = StringValue(user.DB),
                               !.CustomData = toTypesStringMap(user.CustomData),
                               !.Roles = roles.v,
                               !.Mechanisms = toTypesStringSlice(user.Mechanisms)], "ok", "")

\* Mutant: the merge resets the password, which the server does not return.
applyUserClearsPassword(u, user) ==
    LET u1 == [u EXCEPT !.ID = StringValue(user.ID), !.User = StringValue(user.User),
                        !.DB = StringValue(user.DB), !.Password = StringNull]
        u2 == IF ~u1.CustomData.nil
              THEN [u1 EXCEPT !.CustomData = toTypesStringMap(user.CustomData)] ELSE u1
        roles == toTypesUserRoleResourceSlice(u2.Roles, user.Roles)
    IN  IF ~u2.Roles.nil /\ roles.panic THEN Applied(u2, "panic", "index out of range")
        ELSE LET u3 == IF ~u2.Roles.nil THEN [u2 EXCEPT !.Roles = roles.v] ELSE u2
                 u4 == IF ~u3.Mechanisms.nil
                       THEN [u3 EXCEPT !.Mechanisms = toTypesStringSlice(user.Mechanisms)] ELSE u3
             IN  Applied(u4, "ok", "")

\* Mutant: the merge refreshes the name and the database but not the id.
applyUserKeepsID(u, user) ==
    LET u1 == [u EXCEPT !.User = StringValue(user.User), !.DB = StringValue(user.DB)]
        u2 == IF ~u1.CustomData.nil
              THEN [u1 EXCEPT !.CustomData = toTypesStringMap(user.CustomData)] ELSE u1
        roles == toTypesUserRoleResourceSlice(u2.Roles, user.Roles)
    IN  IF ~u2.Roles.nil /\ roles.panic THEN Applied(u2, "panic", "index out of range")
        ELSE LET u3 == IF ~u2.Roles.nil THEN [u2 EXCEPT !.Roles = roles.v] ELSE u2
                 u4 == IF ~u3.Mechanisms.nil
                       THEN [u3 EXCEPT !.Mechanisms = toTypesStringSlice(user.Mechanisms)] ELSE u3
             IN  Applied(u4, "ok", "")

applyUser(u, user) ==
    LET u1 == [u EXCEPT !.ID = StringValue(user.ID), !.User = StringValue(user.User),
                        !.DB = StringValue(user.DB)]
        u2 == IF ~u1.CustomData.nil
              THEN [u1 EXCEPT !.CustomData = toTypesStringMap(user.CustomData)] ELSE u1
        roles == toTypesUserRoleResourceSlice(u2.Roles, user.Roles)
    IN  IF ~u2.Roles.nil /\ roles.panic THEN Applied(u2, "panic", "index out of range")
        ELSE LET u3 == IF ~u2.Roles.nil THEN [u2 EXCEPT !.Roles = roles.v] ELSE u2
                 u4 == IF ~u3.Mechanisms.nil
                       THEN [u3 EXCEPT !.Mechanisms = toTypesStringSlice(user.Mechanisms)] ELSE u3
             IN  Applied(u4, "ok", "")

applyRole(u, role) ==
    LET u1 == [u EXCEPT !.ID = StringValue(role.ID), !.Role = StringValue(role.Role),
                        !.DB = StringValue(role.DB)]
        roles == toTypesRoleRefResourceSlice(u1.Roles, role.Roles)
    IN  IF ~u1.Roles.nil /\ roles.panic THEN Applied(u1, "panic", "index out of range")
        ELSE LET u2 == IF ~u1.Roles.nil THEN [u1 EXCEPT !.Roles = roles.v] ELSE u1
                 privs == toTypesPrivilegeResourceSlice(role.Privileges)
             IN  IF u2.Privileges.nil THEN Applied(u2, "ok", "")
                 ELSE IF privs.err # "" THEN Applied(u2, "error", privs.err)
                 ELSE Applied([u2 EXCEPT !.Privileges = privs.v], "ok", "")

(***************************************************************************)
(* Specification of the identity codec: a model whose attributes are drawn *)
(* from the bounded strings is resolved by either resource.                *)
(***************************************************************************)
IdModels ==
    [ID   : NullableStrings(MaxIdLen),
     Name : NullableStrings(MaxAttrLen),
     DB   : NullableStrings(MaxAttrLen)]

IdNoResult == [op |-> "none", err |-> "", name |-> << >>, db |-> << >>]

IdStart ==
    /\ idModel \in IdModels
    /\ idResult = IdNoResult

IdIdle ==
    /\ idModel = [ID |-> StringNull, Name |-> StringNull, DB |-> StringNull]
    /\ idResult = IdNoResult

IdReturned(op, r) == [op |-> op, err |-> r.err, name |-> r.name, db |-> r.db]

UserAndDB ==
    /\ idResult.op = "none"
    /\ idResult' = IdReturned("user",
            userAndDB([ID |-> idModel.ID, User |-> idModel.Name, DB |-> idModel.DB]))
    /\ UNCHANGED <<idModel, notIdVars>>

RoleAndDB ==
    /\ idResult.op = "none"
    /\ idResult' = IdReturned("role",
            roleAndDB([ID |-> idModel.ID, Role |-> idModel.Name, DB |-> idModel.DB]))
    /\ UNCHANGED <<idModel, notIdVars>>

IdNext == UserAndDB \/ RoleAndDB

(***************************************************************************)
(* Resource-union codec.  The four variants of mongodb.Resource, and nil   *)
(* (the Union of a zero ResourceWrapper).                                  *)
(***************************************************************************)
MaxFields == 3

CodecStrings == {<< >>, <<"x">>}

ResourceFields == [type |-> "nil", AnyResource |-> FALSE, Cluster |-> FALSE,
                   DB |-> << >>, Collection |-> << >>, SystemBuckets |-> << >>]

NilResource == ResourceFields

ResourceAny(b) == [ResourceFields EXCEPT !.type = "ResourceAny", !.AnyResource = b]

ResourceCluster(b) == [ResourceFields EXCEPT !.type = "ResourceCluster", !.Cluster = b]

ResourceCollection(db, col) ==
    [ResourceFields EXCEPT !.type = "ResourceCollection", !.DB = db, !.Collection = col]

ResourceSystemBuckets(s) ==
    [ResourceFields EXCEPT !.type = "ResourceSystemBuckets", !.SystemBuckets = s]

Resources ==
    {ResourceAny(b) : b \in BOOLEAN} \cup {ResourceCluster(b) : b \in BOOLEAN}
    \cup {ResourceCollection(d, c) : d \in CodecStrings, c \in CodecStrings}
    \cup {ResourceSystemBuckets(s) : s \in CodecStrings}

(***************************************************************************)
(* BSON values and documents.  A document is a function from the field    *)
(* names it carries to their values.                                       *)
(***************************************************************************)
BsonString(s) == [t |-> "string", s |-> s, b |-> FALSE]

BsonBool(b) == [t |-> "bool", s |-> << >>, b |-> b]

BsonInt32 == [t |-> "int32", s |-> << >>, b |-> FALSE]

BsonValues ==
    {BsonString(s) : s \in CodecStrings} \cup {BsonBool(b) : b \in BOOLEAN} \cup {BsonInt32}

FieldNames == {"system_buckets", "anyResource", "cluster", "db", "collection"}

Documents ==
    UNION {[S -> BsonValues] : S \in {T \in SUBSET FieldNames : Cardinality(T) <= MaxFields}}

RawDocument(d) == [kind |-> "document", doc |-> d]

RawNonDocument == [kind |-> "string", doc |-> << >>]

NoWire == [kind |-> "none", doc |-> << >>]

RawValues == {RawDocument(d) : d \in Documents} \cup {RawNonDocument}

(***************************************************************************)
(* MarshalBSONValue: bson.MarshalValue(r.Union) writes the fields of the   *)
(* variant's struct under their bson tags (none is omitempty).             *)
(***************************************************************************)
\* Mutant: the struct tags carry omitempty, so zero values are not written.
EncodeResourceOmitEmpty(u) ==
    LET all == CASE u.type = "ResourceAny" -> [f \in {"anyResource"} |-> BsonBool(u.AnyResource)]
                 [] u.type = "ResourceCluster" -> [f \in {"cluster"} |-> BsonBool(u.Cluster)]
                 [] u.type = "ResourceSystemBuckets" ->
                        [f \in {"system_buckets"} |-> BsonString(u.SystemBuckets)]
                 [] OTHER -> [f \in {"db", "collection"} |->
                                IF f = "db" THEN BsonString(u.DB) ELSE BsonString(u.Collection)]
        kept == {f \in DOMAIN all : all[f] \notin {BsonBool(FALSE), BsonString(<< >>)}}
    IN  RawDocument([f \in kept |-> all[f]])

EncodeResource(u) ==
    CASE u.type = "ResourceAny" ->
            RawDocument([f \in {"anyResource"} |-> BsonBool(u.AnyResource)])
      [] u.type = "ResourceCluster" ->
            RawDocument([f \in {"cluster"} |-> BsonBool(u.Cluster)])
      [] u.type = "ResourceSystemBuckets" ->
            RawDocument([f \in {"system_buckets"} |-> BsonString(u.SystemBuckets)])
      [] u.type = "ResourceCollection" ->
            RawDocument([f \in {"db", "collection"} |->
                            IF f = "db" THEN BsonString(u.DB) ELSE BsonString(u.Collection)])

(***************************************************************************)
(* UnmarshalBSONValue.  The result is the new r.Union and the error.       *)
(***************************************************************************)
Decoded(u) == [Union |-> u, err |-> ""]

DecodeFailed(old, e) == [Union |-> old, err |-> e]

MustBe(field, want, value) == "resource." \o field \o " must be " \o want \o ", got " \o value.t

\* Mutant: a document without db or without collection is not a Collection.
DecodeCollectionBothRequired(old, m) ==
    IF {"db", "collection"} \subseteq DOMAIN m /\ m["db"].t = "string" /\ m["collection"].t = "string"
    THEN Decoded(ResourceCollection(m["db"].s, m["collection"].s))
    ELSE DecodeFailed(old, "cannot decode into a collection")

\* rv.Unmarshal(&col): absent fields stay "", present ones must be strings.
DecodeCollection(old, m) ==
    LET bad == {f \in {"db", "collection"} : f \in DOMAIN m /\ m[f].t # "string"}
        get(f) == IF f \in DOMAIN m THEN m[f].s ELSE << >>
    IN  IF bad # {}
        THEN DecodeFailed(old, "cannot decode " \o (CHOOSE f \in bad : TRUE) \o " into a string type")
        ELSE Decoded(ResourceCollection(get("db"), get("collection")))

\* Mutant: cluster is probed before system_buckets and anyResource.
DecodeResourceClusterFirst(old, raw) ==
    IF raw.kind # "document" THEN DecodeFailed(old, "cannot unmarshal into a map") ELSE
    LET m == raw.doc IN
    IF "cluster" \in DOMAIN m
    THEN IF m["cluster"].t = "bool"
         THEN Decoded(ResourceCluster(m["cluster"].b))
         ELSE DecodeFailed(old, MustBe("cluster", "bool", m["cluster"]))
    ELSE IF "system_buckets" \in DOMAIN m
    THEN IF m["system_buckets"].t = "string"
         THEN Decoded(ResourceSystemBuckets(m["system_buckets"].s))
         ELSE DecodeFailed(old, MustBe("system_buckets", "string", m["system_buckets"]))
    ELSE IF "anyResource" \in DOMAIN m
    THEN IF m["anyResource"].t = "bool"
         THEN Decoded(ResourceAny(m["anyResource"].b))
         ELSE DecodeFailed(old, MustBe("anyResource", "bool", m["anyResource"]))
    ELSE DecodeCollection(old, m)

\* Mutant: a discriminator of the wrong type is skipped instead of reported.
DecodeResourceFallThrough(old, raw) ==
    IF raw.kind # "document" THEN DecodeFailed(old, "cannot unmarshal into a map") ELSE
    LET m == raw.doc IN
    IF "system_buckets" \in DOMAIN m /\ m["system_buckets"].t = "string"
    THEN Decoded(ResourceSystemBuckets(m["system_buckets"].s))
    ELSE IF "anyResource" \in DOMAIN m /\ m["anyResource"].t = "bool"
    THEN Decoded(ResourceAny(m["anyResource"].b))
    ELSE IF "cluster" \in DOMAIN m /\ m["cluster"].t = "bool"
    THEN Decoded(ResourceCluster(m["cluster"].b))
    ELSE DecodeCollection(old, m)

DecodeResource(old, raw) ==
    IF raw.kind # "document" THEN DecodeFailed(old, "cannot unmarshal into a map") ELSE
    LET m == raw.doc IN
    IF "system_buckets" \in DOMAIN m
    THEN IF m["system_buckets"].t = "string"
         THEN Decoded(ResourceSystemBuckets(m["system_buckets"].s))
         ELSE DecodeFailed(old, MustBe("system_buckets", "string", m["system_buckets"]))
    ELSE IF "anyResource" \in DOMAIN m
    THEN IF m["anyResource"].t = "bool"
         THEN Decoded(ResourceAny(m["anyResource"].b))
         ELSE DecodeFailed(old, MustBe("anyResource", "bool", m["anyResource"]))
    ELSE IF "cluster" \in DOMAIN m
    THEN IF m["cluster"].t = "bool"
         THEN Decoded(ResourceCluster(m["cluster"].b))
         ELSE DecodeFailed(old, MustBe("cluster", "bool", m["cluster"]))
    ELSE DecodeCollection(old, m)

(***************************************************************************)
(* Specification of the codec: a wrapper is marshalled, or the server      *)
(* sends a value; the value is then unmarshalled into a wrapper that may   *)
(* hold any earlier Union.                                                 *)
(***************************************************************************)
CodecIdle ==
    /\ wire = NoWire /\ wireSrc = "none" /\ sent = NilResource
    /\ Union = NilResource /\ prevUnion = NilResource
    /\ codecErr = "" /\ phase = "idle"

CodecStart ==
    /\ wire = NoWire /\ wireSrc = "none" /\ sent = NilResource
    /\ Union \in Resources /\ prevUnion = NilResource
    /\ codecErr = "" /\ phase = "start"

MarshalBSONValue ==
    /\ phase = "start"
    /\ wire' = EncodeResource(Union)
    /\ wireSrc' = "marshal"
    /\ sent' = Union
    /\ phase' = "wired"
    /\ UNCHANGED <<Union, prevUnion, codecErr, notCodecVars>>

ServerSends ==
    /\ phase = "start"
    /\ wire' \in RawValues
    /\ wireSrc' = "server"
    /\ phase' = "wired"
    /\ UNCHANGED <<sent, Union, prevUnion, codecErr, notCodecVars>>

\* The decoder's target: a zero wrapper or one that holds an earlier value.
DecodeTarget ==
    /\ phase = "wired"
    /\ Union' \in Resources \cup {NilResource}
    /\ phase' = "target"
    /\ UNCHANGED <<wire, wireSrc, sent, prevUnion, codecErr, notCodecVars>>

UnmarshalBSONValue ==
    /\ phase = "target"
    /\ LET r == DecodeResource(Union, wire)
       IN  Union' = r.Union /\ codecErr' = r.err
    /\ prevUnion' = Union
    /\ phase' = "decoded"
    /\ UNCHANGED <<wire, wireSrc, sent, notCodecVars>>

CodecNext == MarshalBSONValue \/ ServerSends \/ DecodeTarget \/ UnmarshalBSONValue

(***************************************************************************)
(* Specification of the merge: a model the framework can decode (any       *)
(* optional collection nil, empty or filled) meets a fetched entity.       *)
(***************************************************************************)
MaxRoles == 2

MaxMerges == 2

MaxPrivileges == 1

SeqsUpTo(S, n) == UNION {[1..k -> S] : k \in 0..n}

NilOr(S) == {Nil} \cup {NonNil(c) : c \in S}

DBName == <<"d">>

PrincipalName == <<"a">>

RoleNames == {<<"r">>, <<"s">>}

FetchedRoleRefs == [Role : RoleNames, DB : {DBName}]

ModelRoleRefs == [Role : {StringValue(n) : n \in RoleNames}, DB : {StringNull, StringValue(DBName)}]

CustomDataMaps == {<< >>} \cup [{"k"} -> {<<"v">>}]

ModelCustomData == NilOr({<< >>} \cup [{"k"} -> {StringValue(<<"w">>)}])

MechanismLists == {<< >>, <<(<<"SCRAM-SHA-256">>)>>}

ModelMechanisms == NilOr({<< >>, <<StringValue(<<"SCRAM-SHA-1">>)>>})

MergeResources ==
    {ResourceAny(TRUE), ResourceCluster(TRUE), ResourceCollection(<<"x">>, << >>),
     ResourceSystemBuckets(<<"x">>)}

FetchedPrivileges == [Resource : MergeResources, Actions : {<<(<<"find">>)>>}]

ModelPrivileges ==
    {[Resource |-> [ResourceModelZero EXCEPT !.Cluster = BoolValue(TRUE)],
      Actions  |-> NonNil(<<StringValue(<<"find">>)>>)]}

\* Identity attributes of a model: declared (name and db) or imported (id).
ModelIdentities ==
    {[ID |-> StringNull, Name |-> StringValue(PrincipalName), DB |-> StringValue(DBName)],
     [ID |-> StringValue(Format(PrincipalName, DBName)), Name |-> StringNull, DB |-> StringNull]}

UserModels ==
    {[ID |-> i.ID, User |-> i.Name, DB |-> i.DB, Password |-> StringValue(<<"p">>),
      CustomData |-> c, Roles |-> r, Mechanisms |-> m] :
        i \in ModelIdentities, c \in ModelCustomData,
        r \in NilOr(SeqsUpTo(ModelRoleRefs, MaxRoles)), m \in ModelMechanisms}

RoleModels ==
    {[ID |-> i.ID, Role |-> i.Name, DB |-> i.DB, Roles |-> r, Privileges |-> pr] :
        i \in ModelIdentities,
        r \in NilOr(SeqsUpTo(ModelRoleRefs, MaxRoles)),
        pr \in NilOr(SeqsUpTo(ModelPrivileges, MaxPrivileges))}

Users ==
    [ID : {Format(PrincipalName, DBName)}, User : {PrincipalName}, DB : {DBName},
     CustomData : CustomDataMaps, Roles : SeqsUpTo(FetchedRoleRefs, MaxRoles),
     Mechanisms : MechanismLists]

Roles ==
    [ID : {Format(PrincipalName, DBName)}, Role : {PrincipalName}, DB : {DBName},
     Roles : SeqsUpTo(FetchedRoleRefs, MaxRoles),
     Privileges : SeqsUpTo(FetchedPrivileges, MaxPrivileges)]

MergeIdle ==
    /\ mKind = "none" /\ mPrior = << >> /\ mFetched = << >> /\ mData = << >>
    /\ mOutcome = "idle" /\ mMerges = 0

MergeStart ==
    /\ mKind \in {"user", "role"}
    /\ mPrior \in IF mKind = "user" THEN UserModels ELSE RoleModels
    /\ mFetched \in IF mKind = "user" THEN Users ELSE Roles
    /\ mData = mPrior
    /\ mOutcome = "none" /\ mMerges = 0

\* A Read merges the entity it fetched into the state the last merge left;
\* a merge that failed left no state to read again.
Mergeable == mOutcome \in {"none", "ok"} /\ mMerges < MaxMerges

ApplyUser ==
    /\ mKind = "user" /\ Mergeable
    /\ LET r == applyUser(mData, mFetched)
       IN  mData' = r.data /\ mOutcome' = r.outcome
    /\ mMerges' = mMerges + 1
    /\ UNCHANGED <<mKind, mPrior, mFetched, notMergeVars>>

ApplyRole ==
    /\ mKind = "role" /\ Mergeable
    /\ LET r == applyRole(mData, mFetched)
       IN  mData' = r.data /\ mOutcome' = r.outcome
    /\ mMerges' = mMerges + 1
    /\ UNCHANGED <<mKind, mPrior, mFetched, notMergeVars>>

MergeNext == ApplyUser \/ ApplyRole

(***************************************************************************)
(* The database as the commands see it: one entity (or none) under the     *)
(* identity of the managed resource.  A command may also fail on the way   *)
(* ("err": RunCommand returns an error) or come back unacknowledged        *)
(* ("notok": ok is not 1); the server then keeps what it has.  Another     *)
(* administrator may also drop the entity just before a command ("gone").  *)
(***************************************************************************)
Absent == [present |-> FALSE, e |-> << >>]

Present(e) == [present |-> TRUE, e |-> e]

\* The ok values of a response that is not an acknowledgement.
NotOKs == {0, 2}

Faults ==
    {[kind |-> "none", ok |-> 1], [kind |-> "err", ok |-> 0], [kind |-> "gone", ok |-> 1]}
    \cup {[kind |-> "notok", ok |-> k] : k \in NotOKs}

NoFault == [kind |-> "none", ok |-> 1]

\* The faults that can befall a command: none if the command is never run.
FaultsIf(runs) == IF runs THEN Faults ELSE {NoFault}

(***************************************************************************)
(* Go errors: the chain of messages from the error itself down to the      *)
(* innermost error it wraps with %w; nil is the empty chain.  errors.Is    *)
(* finds a sentinel anywhere in the chain.                                 *)
(***************************************************************************)
NoError == << >>

ErrNotFound == "not found"

ErrNotOK == "not ok"

ErrorsNew(msg) == <<msg>>

\* fmt.Errorf(prefix + "%w", err)
Wrapped(prefix, err) == <<prefix \o err[1]>> \o err

ErrorsIs(err, target) == \E i \in 1..Len(err) : err[i] = target

Response(err, ok, items) == [err |-> err, ok |-> ok, items |-> items]

\* omitempty: a nil or empty slice or map is left out of the command
OmitEmpty(c) == IF c = << >> THEN Nil ELSE NonNil(c)

\* Mutant: a reference to a role of the same database is sent as a
\* document with an empty db.
EncodeRoleRefAsStruct(ref) ==
    RawDocument([f \in {"role", "db"} |->
                    IF f = "role" THEN BsonString(ref.Role) ELSE BsonString(ref.DB)])

\* A role reference as the BSON encoder writes it: RoleSameDBRef is a Go
\* string and is written as a string, RoleDBRef is a struct with the fields
\* role and db and is written as a document.
EncodeRoleRef(ref) ==
    IF ref.same THEN BsonString(ref.Role)
    ELSE RawDocument([f \in {"role", "db"} |->
                         IF f = "role" THEN BsonString(ref.Role) ELSE BsonString(ref.DB)])

EncodeRoleRefs(refs) == [i \in 1..Len(refs) |-> EncodeRoleRef(refs[i])]

IsDocument(w) == "doc" \in DOMAIN w

\* A role reference as the server reads it: a string, or a document
\* without db, names a role of the command's own database.
ResolveRef(ref, db) ==
    IF ~IsDocument(ref) THEN [Role |-> ref.s, DB |-> db]
    ELSE [Role |-> ref.doc["role"].s,
          DB |-> IF "db" \in DOMAIN ref.doc THEN ref.doc["db"].s ELSE db]

ResolveRefs(refs, db) == [i \in 1..Len(refs) |-> ResolveRef(refs[i], db)]

\* What the server computes and reports with an entity: the user's userId,
\* and for a role isBuiltin and the roles and privileges it inherits, its own
\* included.
ServerUserID == <<"u">>

InheritedRolesOf(roles, db) == roles \o <<[Role |-> <<"i">>, DB |-> db]>>

InheritedPrivilegesOf(privileges) ==
    privileges \o <<[Resource |-> ResourceAny(TRUE), Actions |-> <<(<<"find">>)>>]>>

DefaultMechanisms == <<(<<"SCRAM-SHA-1">>), (<<"SCRAM-SHA-256">>)>>

EntityName(e) == IF "User" \in DOMAIN e THEN e.User ELSE e.Role

Holds(s, db, name) == s.present /\ s.e.DB = db /\ EntityName(s.e) = name

\* What the server does with an acknowledged command.
ServerExec(s, cmd) ==
    CASE cmd.name = "createUser" ->
            IF s.present THEN [resp |-> Response("already exists", 0, << >>), srv |-> s]
            ELSE [resp |-> Response("", 1, << >>),
                  srv |-> Present([ID |-> Format(cmd.target, cmd.db), User |-> cmd.target,
                                   DB |-> cmd.db, UserID |-> ServerUserID,
                                   CustomData |-> cmd.body.CustomData.v,
                                   Roles |-> ResolveRefs(cmd.body.Roles, cmd.db),
                                   Mechanisms |-> IF cmd.body.Mechanisms.nil
                                                  THEN DefaultMechanisms
                                                  ELSE cmd.body.Mechanisms.v])]
      [] cmd.name = "updateUser" ->
            IF ~Holds(s, cmd.db, cmd.target)
            THEN [resp |-> Response("no such principal", 0, << >>), srv |-> s]
            ELSE [resp |-> Response("", 1, << >>),
                  srv |-> Present([s.e EXCEPT
                      !.CustomData = IF cmd.body.CustomData.nil THEN @ ELSE cmd.body.CustomData.v,
                      !.Roles = IF cmd.body.Roles.nil THEN @
                                ELSE ResolveRefs(cmd.body.Roles.v, cmd.db),
                      !.Mechanisms = IF cmd.body.Mechanisms.nil THEN @
                                     ELSE cmd.body.Mechanisms.v])]
      [] cmd.name = "createRole" ->
            IF s.present THEN [resp |-> Response("already exists", 0, << >>), srv |-> s]
            ELSE [resp |-> Response("", 1, << >>),
                  srv |-> Present([ID |-> Format(cmd.target, cmd.db), Role |-> cmd.target,
                                   DB |-> cmd.db, IsBuiltin |-> FALSE,
                                   Roles |-> ResolveRefs(cmd.body.Roles, cmd.db),
                                   Privileges |-> cmd.body.Privileges,
                                   InheritedRoles |->
                                       InheritedRolesOf(ResolveRefs(cmd.body.Roles, cmd.db), cmd.db),
                                   InheritedPrivileges |->
                                       InheritedPrivilegesOf(cmd.body.Privileges)])]
      [] cmd.name = "updateRole" ->
            IF ~Holds(s, cmd.db, cmd.target)
            THEN [resp |-> Response("no such principal", 0, << >>), srv |-> s]
            ELSE LET roles == IF cmd.body.Roles.nil THEN s.e.Roles
                              ELSE ResolveRefs(cmd.body.Roles.v, cmd.db)
                     privileges == IF cmd.body.Privileges.nil THEN s.e.Privileges
                                   ELSE cmd.body.Privileges.v
                 IN  [resp |-> Response("", 1, << >>),
                      srv |-> Present([s.e EXCEPT
                          !.Roles = roles,
                          !.Privileges = privileges,
                          !.InheritedRoles = InheritedRolesOf(roles, cmd.db),
                          !.InheritedPrivileges = InheritedPrivilegesOf(privileges)])]
      [] cmd.name \in {"dropUser", "dropRole"} ->
            IF ~Holds(s, cmd.db, cmd.target)
            THEN [resp |-> Response("no such principal", 0, << >>), srv |-> s]
            ELSE [resp |-> Response("", 1, << >>), srv |-> Absent]
      [] cmd.name \in {"usersInfo", "rolesInfo"} ->
            [resp |-> Response("", 1, IF Holds(s, cmd.db, cmd.target) THEN <<s.e>> ELSE << >>),
             srv |-> s]

\* db.RunCommand(ctx, cmd) and result.Decode: the response and the server after it.
RunCommand(s, cmd, fault) ==
    CASE fault.kind = "err" -> [resp |-> Response("command failed", 0, << >>), srv |-> s]
      [] fault.kind = "notok" -> [resp |-> Response("", fault.ok,
                                 IF cmd.name \in {"usersInfo", "rolesInfo"}
                                 THEN ServerExec(s, cmd).resp.items ELSE << >>),
                             srv |-> s]
      [] fault.kind = "gone" -> ServerExec(Absent, cmd)
      [] OTHER -> ServerExec(s, cmd)

Command(name, db, target, body) == [name |-> name, db |-> db, target |-> target, body |-> body]

\* One entry of the operation's command log.
Logged(cmd, resp) ==
    [cmd |-> cmd.name, db |-> cmd.db, target |-> cmd.target,
     resp |-> IF resp.err # "" THEN "err" ELSE IF resp.ok # 1 THEN "notok" ELSE "ok",
     ok |-> resp.ok, items |-> Len(resp.items),
     roles |-> CASE cmd.name \in {"createUser", "createRole"} -> cmd.body.Roles
                 [] cmd.name \in {"updateUser", "updateRole"} -> cmd.body.Roles.v
                 [] OTHER -> << >>,
     carries |-> DOMAIN cmd.body]

(***************************************************************************)
(* Package mongodb: the result of a client call is its error ("" for nil), *)
(* its value, the commands it ran and the server after them.               *)
(***************************************************************************)
Called(err, v, cmds, s) == [err |-> err, v |-> v, cmds |-> cmds, srv |-> s]

\* Mutant: only ok=0 counts as a response that is not an acknowledgement.
validateResponseOnlyZero(response) ==
    IF response.ok = 0
    THEN <<ErrNotOK \o ": ok=" \o ToString(response.ok), ErrNotOK>>
    ELSE NoError

\* fmt.Errorf("%w: ok=%d", ErrNotOK, response.OK)
validateResponse(response) ==
    IF response.ok # 1
    THEN <<ErrNotOK \o ": ok=" \o ToString(response.ok), ErrNotOK>>
    ELSE NoError

\* result.Err(), result.Decode and validateResponse of a run* function
Ran(s, cmd, fault) ==
    LET r == RunCommand(s, cmd, fault)
        err == IF r.resp.err # "" THEN ErrorsNew(r.resp.err) ELSE validateResponse(r.resp)
    IN  Called(err, IF err = NoError THEN r.resp.items ELSE << >>, <<Logged(cmd, r.resp)>>, r.srv)

runUsersInfo(s, dbName, userName, fault) ==
    Ran(s, Command("usersInfo", dbName, userName, << >>), fault)

runRolesInfo(s, dbName, roleName, fault) ==
    Ran(s, Command("rolesInfo", dbName, roleName, << >>), fault)

InfoSingle(r) ==
    IF r.err # NoError THEN [r EXCEPT !.v = << >>]
    ELSE IF Len(r.v) = 0 THEN [r EXCEPT !.err = ErrorsNew(ErrNotFound), !.v = << >>]
    ELSE [r EXCEPT !.v = r.v[1]]

runUsersInfoSingle(s, dbName, userName, fault) == InfoSingle(runUsersInfo(s, dbName, userName, fault))

runRolesInfoSingle(s, dbName, roleName, fault) == InfoSingle(runRolesInfo(s, dbName, roleName, fault))

runCreateUser(s, dbName, newUser, fault) ==
    Ran(s, Command("createUser", dbName, newUser.User,
                   [Password   |-> newUser.Password,
                    CustomData |-> OmitEmpty(newUser.CustomData),
                    Roles      |-> EncodeRoleRefs(newUser.Roles),
                    Mechanisms |-> OmitEmpty(newUser.Mechanisms)]), fault)

runUpdateUser(s, dbName, update, fault) ==
    Ran(s, Command("updateUser", dbName, update.User,
                   [Password   |-> OmitEmpty(update.Password),
                    CustomData |-> OmitEmpty(update.CustomData),
                    Roles      |-> OmitEmpty(EncodeRoleRefs(update.Roles)),
                    Mechanisms |-> OmitEmpty(update.Mechanisms)]), fault)

runDropUser(s, dbName, userName, fault) == Ran(s, Command("dropUser", dbName, userName, << >>), fault)

runCreateRole(s, dbName, newRole, fault) ==
    Ran(s, Command("createRole", dbName, newRole.Role,
                   [Roles |-> EncodeRoleRefs(newRole.Roles),
                    Privileges |-> newRole.Privileges]), fault)

runUpdateRole(s, dbName, update, fault) ==
    Ran(s, Command("updateRole", dbName, update.Role,
                   [Roles |-> OmitEmpty(EncodeRoleRefs(update.Roles)),
                    Privileges |-> OmitEmpty(update.Privileges)]), fault)

runDropRole(s, dbName, roleName, fault) == Ran(s, Command("dropRole", dbName, roleName, << >>), fault)

\* Mutant: the read-back's error is formatted into the message with %v.
ReadBackOpaque(first, second, context) ==
    IF first.err # NoError THEN first
    ELSE Called(IF second.err # NoError THEN ErrorsNew(context \o ": " \o second.err[1])
                ELSE NoError,
                second.v, first.cmds \o second.cmds, second.srv)

\* The read-back of a Create or Update, after the mutating call `first`.
ReadBack(first, second, context) ==
    IF first.err # NoError THEN first
    ELSE Called(IF second.err # NoError THEN Wrapped(context \o ": ", second.err) ELSE NoError,
                second.v, first.cmds \o second.cmds, second.srv)

\* c.connect failed: the call returns its error and runs nothing.
NotConnected(s) == Called(Wrapped("connect: ", ErrorsNew("connection refused")), << >>, << >>, s)

\* Mutant: the read-back is run whether or not the create command succeeded.
CreateDBRoleAlwaysReadsBack(s, connected, dbName, newRole, f1, f2) ==
    IF ~connected THEN NotConnected(s)
    ELSE LET first == runCreateRole(s, dbName, newRole, f1)
             second == runRolesInfoSingle(first.srv, dbName, newRole.Role, f2)
         IN  Called(IF first.err # NoError THEN first.err ELSE second.err,
                    second.v, first.cmds \o second.cmds, second.srv)

CreateDBUser(s, connected, dbName, newUser, f1, f2) ==
    IF ~connected THEN NotConnected(s)
    ELSE LET first == runCreateUser(s, dbName, newUser, f1)
         IN  ReadBack(first, runUsersInfoSingle(first.srv, dbName, newUser.User, f2),
                      "get created user")

UpdateDBUser(s, connected, dbName, update, f1, f2) ==
    IF ~connected THEN NotConnected(s)
    ELSE LET first == runUpdateUser(s, dbName, update, f1)
         IN  ReadBack(first, runUsersInfoSingle(first.srv, dbName, update.User, f2),
                      "get updated user")

GetDBUser(s, connected, dbName, userName, fault) ==
    IF ~connected THEN NotConnected(s) ELSE runUsersInfoSingle(s, dbName, userName, fault)

DeleteDBUser(s, connected, dbName, userName, fault) ==
    IF ~connected THEN NotConnected(s) ELSE runDropUser(s, dbName, userName, fault)

CreateDBRole(s, connected, dbName, newRole, f1, f2) ==
    IF ~connected THEN NotConnected(s)
    ELSE LET first == runCreateRole(s, dbName, newRole, f1)
         IN  ReadBack(first, runRolesInfoSingle(first.srv, dbName, newRole.Role, f2),
                      "get created role")

UpdateDBRole(s, connected, dbName, update, f1, f2) ==
    IF ~connected THEN NotConnected(s)
    ELSE LET first == runUpdateRole(s, dbName, update, f1)
         IN  ReadBack(first, runRolesInfoSingle(first.srv, dbName, update.Role, f2),
                      "get updated role")

GetDBRole(s, connected, dbName, roleName, fault) ==
    IF ~connected THEN NotConnected(s) ELSE runRolesInfoSingle(s, dbName, roleName, fault)

DeleteDBRole(s, connected, dbName, roleName, fault) ==
    IF ~connected THEN NotConnected(s) ELSE runDropRole(s, dbName, roleName, fault)

(***************************************************************************)
(* Package provider: models to commands.                                   *)
(***************************************************************************)
toRoleRef(r) ==
    IF IsNull(r.DB) THEN [same |-> TRUE, Role |-> ValueString(r.Role), DB |-> << >>]
    ELSE [same |-> FALSE, Role |-> ValueString(r.Role), DB |-> ValueString(r.DB)]

fromTypesRoleRefResourceSlice(roles) == [i \in 1..Len(roles.v) |-> toRoleRef(roles.v[i])]

fromTypesUserRoleResourceSlice(roles) == fromTypesRoleRefResourceSlice(roles)

toResource(r) ==
    IF ~r.Cluster.null /\ r.Cluster.v THEN ResourceCluster(TRUE)
    ELSE IF ~r.AnyResource.null /\ r.AnyResource.v THEN ResourceAny(TRUE)
    ELSE ResourceCollection(ValueString(r.DB), ValueString(r.Collection))

toPrivilege(r) == [Resource |-> toResource(r.Resource), Actions |-> fromTypesStringSlice(r.Actions)]

fromTypesPrivilegeResourceSlice(privileges) ==
    [i \in 1..Len(privileges.v) |-> toPrivilege(privileges.v[i])]

(***************************************************************************)
(* The handlers.  A handler returns the persisted state it leaves, the     *)
(* server after its commands, its outcome, the summary of its diagnostic   *)
(* and the commands it ran.  The state is set by resp.State.Set, the last  *)
(* statement of Create, Read and Update; a handler that returns early, or  *)
(* whose process is ended by a panic, leaves the state of the request.     *)
(***************************************************************************)
Returned(state, s, outcome, diag, cmds) ==
    [state |-> state, srv |-> s, outcome |-> outcome, diag |-> diag, cmds |-> cmds,
     err |-> NoError, fetched |-> Absent]

DataError(prior, s) == Returned(prior, s, "error", "Data Error", << >>)

ClientError(prior, call) ==
    [Returned(prior, call.srv, "error", "Client Error", call.cmds) EXCEPT !.err = call.err]

\* Mutant: the state is set before the result of the merge is looked at.
SetStateUnchecked(prior, applied, call) ==
    [Returned(Present(applied.data), call.srv, applied.outcome,
              IF applied.outcome = "ok" THEN "" ELSE "Client Error", call.cmds)
        EXCEPT !.fetched = Present(call.v)]

\* The error check after applyRole (applyUser returns none) and State.Set.
SetState(prior, applied, call) ==
    LET r == CASE applied.outcome = "ok" ->
                    Returned(Present(applied.data), call.srv, "ok", "", call.cmds)
               [] applied.outcome = "error" -> ClientError(prior, call)
               [] applied.outcome = "panic" ->
                    Returned(prior, call.srv, "panic", "Plugin did not respond", call.cmds)
    IN  [r EXCEPT !.fetched = Present(call.v)]

NewUserOf(userName, data) ==
    [User       |-> userName,
     Password   |-> ValueString(data.Password),
     CustomData |-> fromTypesStringMap(data.CustomData),
     Roles      |-> fromTypesUserRoleResourceSlice(data.Roles),
     Mechanisms |-> fromTypesStringSlice(data.Mechanisms)]

NewRoleOf(roleName, data) ==
    [Role       |-> roleName,
     Roles      |-> fromTypesRoleRefResourceSlice(data.Roles),
     Privileges |-> fromTypesPrivilegeResourceSlice(data.Privileges)]

UserResourceCreate(prior, data, s, connected, f1, f2) ==
    LET id == userAndDB(data) IN
    IF id.err # "" THEN DataError(prior, s) ELSE
    LET call == CreateDBUser(s, connected, id.db, NewUserOf(id.name, data), f1, f2) IN
    IF call.err # NoError THEN ClientError(prior, call) ELSE
    SetState(prior, applyUser(data, call.v), call)

UserResourceRead(prior, data, s, connected, f1) ==
    LET id == userAndDB(data) IN
    IF id.err # "" THEN DataError(prior, s) ELSE
    LET call == GetDBUser(s, connected, id.db, id.name, f1) IN
    IF call.err # NoError THEN ClientError(prior, call) ELSE
    SetState(prior, applyUser(data, call.v), call)

UserResourceUpdate(prior, data, s, connected, f1, f2) ==
    LET id == userAndDB(data) IN
    IF id.err # "" THEN DataError(prior, s) ELSE
    LET call == UpdateDBUser(s, connected, id.db, NewUserOf(id.name, data), f1, f2) IN
    IF call.err # NoError THEN ClientError(prior, call) ELSE
    SetState(prior, applyUser(data, call.v), call)

\* A Delete that returns without error lets the host remove the state.
UserResourceDelete(prior, data, s, connected, f1) ==
    LET id == userAndDB(data) IN
    IF id.err # "" THEN DataError(prior, s) ELSE
    LET call == DeleteDBUser(s, connected, id.db, id.name, f1) IN
    IF call.err # NoError THEN ClientError(prior, call) ELSE
    Returned(Absent, call.srv, "ok", "", call.cmds)

RoleResourceCreate(prior, data, s, connected, f1, f2) ==
    LET id == roleAndDB(data) IN
    IF id.err # "" THEN DataError(prior, s) ELSE
    LET call == CreateDBRole(s, connected, id.db, NewRoleOf(id.name, data), f1, f2) IN
    IF call.err # NoError THEN ClientError(prior, call) ELSE
    SetState(prior, applyRole(data, call.v), call)

RoleResourceRead(prior, data, s, connected, f1) ==
    LET id == roleAndDB(data) IN
    IF id.err # "" THEN DataError(prior, s) ELSE
    LET call == GetDBRole(s, connected, id.db, id.name, f1) IN
    IF call.err # NoError THEN ClientError(prior, call) ELSE
    SetState(prior, applyRole(data, call.v), call)

RoleResourceUpdate(prior, data, s, connected, f1, f2) ==
    LET id == roleAndDB(data) IN
    IF id.err # "" THEN DataError(prior, s) ELSE
    LET call == UpdateDBRole(s, connected, id.db, NewRoleOf(id.name, data), f1, f2) IN
    IF call.err # NoError THEN ClientError(prior, call) ELSE
    SetState(prior, applyRole(data, call.v), call)

RoleResourceDelete(prior, data, s, connected, f1) ==
    LET id == roleAndDB(data) IN
    IF id.err # "" THEN DataError(prior, s) ELSE
    LET call == DeleteDBRole(s, connected, id.db, id.name, f1) IN
    IF call.err # NoError THEN ClientError(prior, call) ELSE
    Returned(Absent, call.srv, "ok", "", call.cmds)

\* resource.ImportStatePassthroughID: the state holds the id and nothing else.
ImportedUser(id) ==
    [ID |-> StringValue(id), User |-> StringNull, DB |-> StringNull, Password |-> StringNull,
     CustomData |-> Nil, Roles |-> Nil, Mechanisms |-> Nil, Timeouts |-> StringNull]

ImportedRole(id) ==
    [ID |-> StringValue(id), Role |-> StringNull, DB |-> StringNull,
     Roles |-> Nil, Privileges |-> Nil, Timeouts |-> StringNull]

(***************************************************************************)
(* Specification of the handlers: the host creates, reads, updates,        *)
(* deletes and imports one user or one role, each request one whole        *)
(* handler, while the database may change under it.  Timeouts are left     *)
(* out: a command that runs out of time is a command that fails.           *)
(***************************************************************************)
\* timeouts = { create = "5m" }
DeclaredTimeouts == StringValue(<<"5", "m">>)

\* The declarations of a user: nothing optional, empty roles, a role of the
\* user's own database, a role of a named database.
UserPlans ==
    LET data == NonNil([k \in {"k"} |-> StringValue(<<"w">>)])
        role(db) == NonNil(<<[Role |-> StringValue(<<"r">>), DB |-> db]>>)
    IN  {[ID |-> StringNull, User |-> StringValue(PrincipalName), DB |-> StringValue(DBName),
          Password |-> StringValue(<<"p">>), CustomData |-> d[1], Roles |-> d[2],
          Mechanisms |-> Nil, Timeouts |-> DeclaredTimeouts] :
            d \in {<<Nil, Nil>>, <<data, NonNil(<< >>)>>,
                   <<data, role(StringNull)>>, <<Nil, role(StringValue(DBName))>>}}

\* The declarations of a role: nothing optional, empty lists, a privilege
\* alone, a role of the role's own database with a privilege, a role of a
\* named database.
RolePlans ==
    LET role(db) == NonNil(<<[Role |-> StringValue(<<"r">>), DB |-> db]>>)
    IN  {[ID |-> StringNull, Role |-> StringValue(PrincipalName), DB |-> StringValue(DBName),
          Roles |-> d[1], Privileges |-> d[2], Timeouts |-> DeclaredTimeouts] :
            d \in {<<Nil, Nil>>, <<NonNil(<< >>), NonNil(<< >>)>>,
                   <<role(StringValue(DBName)), Nil>>}
                  \cup {<<r, NonNil(<<pr>>)>> :
                            r \in {Nil, role(StringNull)}, pr \in ModelPrivileges}}

Plans == IF hKind = "user" THEN UserPlans ELSE RolePlans

\* What another administrator may leave under the identity.
DriftedRoleLists ==
    {<<[Role |-> <<"s">>, DB |-> DBName]>>,
     <<[Role |-> <<"r">>, DB |-> DBName], [Role |-> <<"s">>, DB |-> DBName]>>}

DriftedUsers ==
    [ID : {Format(PrincipalName, DBName)}, User : {PrincipalName}, DB : {DBName},
     UserID : {ServerUserID},
     CustomData : {[k \in {"k"} |-> <<"v">>]}, Roles : DriftedRoleLists,
     Mechanisms : {DefaultMechanisms}]

DriftedRoles ==
    {[ID |-> Format(PrincipalName, DBName), Role |-> PrincipalName, DB |-> DBName,
      IsBuiltin |-> FALSE, Roles |-> roles,
      Privileges |-> <<[Resource |-> r, Actions |-> <<(<<"find">>)>>]>>,
      InheritedRoles |-> InheritedRolesOf(roles, DBName),
      InheritedPrivileges |->
          InheritedPrivilegesOf(<<[Resource |-> r, Actions |-> <<(<<"find">>)>>]>>)] :
        roles \in DriftedRoleLists, r \in {ResourceAny(TRUE), ResourceSystemBuckets(<<"x">>)}}

Drifted ==
    {Absent} \cup {Present(e) : e \in IF hKind = "user" THEN DriftedUsers ELSE DriftedRoles}

ImportIds == {Format(PrincipalName, DBName), DBName \o PrincipalName, Format(<<"b">>, DBName)}

\* An update keeps the identity (a changed name or db replaces the
\* resource) and carries the id of the state.
UpdatePlans ==
    {[pl EXCEPT !.ID = tfState.e.ID] :
        pl \in {q \in Plans : q.DB = tfState.e.DB /\
                    IF hKind = "user" THEN q.User = tfState.e.User ELSE q.Role = tfState.e.Role}}

HandlerIdle ==
    /\ hKind = "none" /\ tfState = Absent /\ srv = Absent /\ hOp = "none"
    /\ hOutcome = "none" /\ hDiag = "" /\ hCmds = << >>
    /\ hData = Absent /\ hErr = NoError /\ hFetched = Absent

HandlerStart ==
    /\ hKind \in {"user", "role"} /\ tfState = Absent /\ srv = Absent /\ hOp = "none"
    /\ hOutcome = "none" /\ hDiag = "" /\ hCmds = << >>
    /\ hData = Absent /\ hErr = NoError /\ hFetched = Absent

Respond(op, data, r) ==
    /\ tfState' = r.state
    /\ srv' = r.srv
    /\ hOp' = op /\ hOutcome' = r.outcome /\ hDiag' = r.diag /\ hCmds' = r.cmds
    /\ hData' = data /\ hErr' = r.err /\ hFetched' = r.fetched
    /\ UNCHANGED <<hKind, notHandlerVars>>

UserCreate ==
    /\ hKind = "user" /\ ~tfState.present
    /\ \E data \in UserPlans, connected \in BOOLEAN :
       \E f1 \in FaultsIf(connected) : \E f2 \in FaultsIf(connected /\ f1 = NoFault) :
          Respond("Create", Present(data), UserResourceCreate(tfState, data, srv, connected, f1, f2))

UserRead ==
    /\ hKind = "user" /\ tfState.present
    /\ \E connected \in BOOLEAN : \E f1 \in FaultsIf(connected) :
          Respond("Read", Present(tfState.e), UserResourceRead(tfState, tfState.e, srv, connected, f1))

UserUpdate ==
    /\ hKind = "user" /\ tfState.present
    /\ \E data \in UpdatePlans, connected \in BOOLEAN :
       \E f1 \in FaultsIf(connected) : \E f2 \in FaultsIf(connected /\ f1 = NoFault) :
          Respond("Update", Present(data), UserResourceUpdate(tfState, data, srv, connected, f1, f2))

UserDelete ==
    /\ hKind = "user" /\ tfState.present
    /\ \E connected \in BOOLEAN : \E f1 \in FaultsIf(connected) :
          Respond("Delete", Present(tfState.e), UserResourceDelete(tfState, tfState.e, srv, connected, f1))

RoleCreate ==
    /\ hKind = "role" /\ ~tfState.present
    /\ \E data \in RolePlans, connected \in BOOLEAN :
       \E f1 \in FaultsIf(connected) : \E f2 \in FaultsIf(connected /\ f1 = NoFault) :
          Respond("Create", Present(data), RoleResourceCreate(tfState, data, srv, connected, f1, f2))

RoleRead ==
    /\ hKind = "role" /\ tfState.present
    /\ \E connected \in BOOLEAN : \E f1 \in FaultsIf(connected) :
          Respond("Read", Present(tfState.e), RoleResourceRead(tfState, tfState.e, srv, connected, f1))

RoleUpdate ==
    /\ hKind = "role" /\ tfState.present
    /\ \E data \in UpdatePlans, connected \in BOOLEAN :
       \E f1 \in FaultsIf(connected) : \E f2 \in FaultsIf(connected /\ f1 = NoFault) :
          Respond("Update", Present(data), RoleResourceUpdate(tfState, data, srv, connected, f1, f2))

RoleDelete ==
    /\ hKind = "role" /\ tfState.present
    /\ \E connected \in BOOLEAN : \E f1 \in FaultsIf(connected) :
          Respond("Delete", Present(tfState.e), RoleResourceDelete(tfState, tfState.e, srv, connected, f1))

ImportState ==
    /\ ~tfState.present
    /\ \E id \in ImportIds :
          Respond("Import", Absent,
                  Returned(Present(IF hKind = "user" THEN ImportedUser(id) ELSE ImportedRole(id)),
                           srv, "ok", "", << >>))

ExternalChange ==
    /\ srv' \in Drifted \ {srv}
    /\ hOp' = "none" /\ hOutcome' = "none" /\ hDiag' = "" /\ hCmds' = << >>
    /\ hData' = Absent /\ hErr' = NoError /\ hFetched' = Absent
    /\ UNCHANGED <<hKind, tfState, notHandlerVars>>

HandlerNext ==
    \/ UserCreate \/ UserRead \/ UserUpdate \/ UserDelete
    \/ RoleCreate \/ RoleRead \/ RoleUpdate \/ RoleDelete
    \/ ImportState \/ ExternalChange

(***************************************************************************)
(* Specification of a privilege on its way: a declared privilege is        *)
(* converted for the command, the server stores it and returns it in the   *)
(* read-back, and the merge converts what was fetched into the model; or   *)
(* the server returns a privilege nobody declared here.                    *)
(***************************************************************************)
\* resourceResourceAttributesSchema: cluster and any_resource conflict with
\* db and collection, db and collection require each other.
Validates(r) ==
    /\ ~r.Cluster.null => (r.DB.null /\ r.Collection.null)
    /\ ~r.AnyResource.null => (r.DB.null /\ r.Collection.null)
    /\ r.DB.null <=> r.Collection.null

ResourceModels ==
    LET bools == {BoolNull, BoolValue(TRUE), BoolValue(FALSE)}
        strings == {StringNull} \cup {StringValue(x) : x \in CodecStrings}
    IN  {r \in [Cluster : bools, AnyResource : bools, DB : strings, Collection : strings] :
            Validates(r)}

\* actions: a set of at least one string
ActionLists == {<<(<<"find">>)>>, <<(<<"find">>), (<<"insert">>)>>}

PrivilegeModels ==
    {[Resource |-> r, Actions |-> toTypesStringSlice(a)] : r \in ResourceModels, a \in ActionLists}

NoPrivilegeModel == [Resource |-> ResourceModelZero, Actions |-> Nil]

NoPrivilege == [Resource |-> NilResource, Actions |-> << >>]

NotConverted == [err |-> "", v |-> NoPrivilegeModel]

PrivIdle ==
    /\ pModel = NoPrivilegeModel /\ pWire = NoPrivilege /\ pState = NotConverted
    /\ pStep = "idle"

PrivStart ==
    /\ pState = NotConverted
    /\ \/ pStep = "declared" /\ pModel \in PrivilegeModels /\ pWire = NoPrivilege
       \/ /\ pStep = "fetched" /\ pModel = NoPrivilegeModel
          /\ pWire \in [Resource : Resources, Actions : ActionLists]

ToPrivilege ==
    /\ pStep = "declared"
    /\ pWire' = toPrivilege(pModel)
    /\ pStep' = "sent"
    /\ UNCHANGED <<pModel, pState, notPrivVars>>

\* The server stores the privilege of the command and returns it in
\* rolesInfo: the resource is marshalled by the wrapper and unmarshalled
\* from what the server returns.
StoredAndReturned ==
    /\ pStep = "sent"
    /\ LET dec == DecodeResource(NilResource, EncodeResource(pWire.Resource))
       IN  /\ pWire' = [pWire EXCEPT !.Resource = dec.Union]
           /\ pStep' = IF dec.err = "" THEN "fetched" ELSE "undecoded"
    /\ UNCHANGED <<pModel, pState, notPrivVars>>

ToTypesPrivilegeResource ==
    /\ pStep = "fetched"
    /\ pState' = toTypesPrivilegeResource(pWire)
    /\ pStep' = "merged"
    /\ UNCHANGED <<pModel, pWire, notPrivVars>>

PrivNext == ToPrivilege \/ StoredAndReturned \/ ToTypesPrivilegeResource

(***************************************************************************)
(* Specification of the users data source: the host reads the data source  *)
(* once, with a db or without, with a filter or without, from a database   *)
(* that holds some users; the listing may fail like any command.           *)
(***************************************************************************)
ListedUser(name, db) ==
    [ID |-> Format(name, db), User |-> name, DB |-> db, UserID |-> ServerUserID,
     CustomData |-> << >>, Roles |-> <<[Role |-> <<"r">>, DB |-> db]>>,
     Mechanisms |-> DefaultMechanisms]

AllUsers == <<ListedUser(<<"a">>, DBName), ListedUser(<<"b">>, DBName), ListedUser(<<"a">>, <<"e">>)>>

\* The users a database may hold, in the order it lists them.
UserLists == {SelectSeq(AllUsers, LAMBDA u : u.ID \in ids) :
                 ids \in SUBSET {AllUsers[i].ID : i \in 1..Len(AllUsers)}}

DataSourceConfigs ==
    [DB : {StringNull, StringValue(DBName)},
     Filter : {Nil, NonNil([k \in {"user"} |-> <<"a">>])}]

\* usersInfo: 1 lists the users of the command's database, forAllDBs those of
\* every database; the filter keeps the users whose fields match.
UsersInfoList(users, dbName, forAllDBs, filter) ==
    SelectSeq(users, LAMBDA u : /\ forAllDBs \/ u.DB = dbName
                                /\ filter.nil \/ u.User = filter.v["user"])

\* runUsersInfo for a listing: nil and the error, or response.Users.
runUsersInfoList(users, dbName, forAllDBs, filter, fault) ==
    LET resp == CASE fault.kind = "err" -> Response("command failed", 0, << >>)
                  [] fault.kind = "notok" ->
                        Response("", fault.ok, UsersInfoList(users, dbName, forAllDBs, filter))
                  [] OTHER -> Response("", 1, UsersInfoList(users, dbName, forAllDBs, filter))
        err == IF resp.err # "" THEN ErrorsNew(resp.err) ELSE validateResponse(resp)
    IN  [err |-> err, v |-> IF err = NoError THEN NonNil(resp.items) ELSE Nil]

ListDBUsers(users, connected, dbName, filter, fault) ==
    IF ~connected THEN [err |-> NotConnected(Absent).err, v |-> Nil]
    ELSE runUsersInfoList(users, dbName, FALSE, filter, fault)

ListAllUsers(users, connected, filter, fault) ==
    IF ~connected THEN [err |-> NotConnected(Absent).err, v |-> Nil]
    ELSE runUsersInfoList(users, <<"a", "d", "m", "i", "n">>, TRUE, filter, fault)

ConvertUser(user) ==
    [ID |-> StringValue(user.ID), User |-> StringValue(user.User), DB |-> StringValue(user.DB),
     CustomData |-> toTypesStringMap(user.CustomData),
     Roles |-> NonNil([i \in 1..Len(user.Roles) |->
                          [Role |-> StringValue(user.Roles[i].Role),
                           DB |-> StringValue(user.Roles[i].DB)]]),
     Mechanisms |-> toTypesStringSlice(user.Mechanisms)]

\* make([]UserModel, len(users)): the result of a nil slice is an empty list
ConvertUserSlice(users) == NonNil([i \in 1..Len(users.v) |-> ConvertUser(users.v[i])])

\* UsersDataSource.Read: the error is added to the diagnostics and the
\* handler goes on to convert the users and to set the state.
UsersDataSourceRead(config, users, connected, fault) ==
    LET call == IF IsNull(config.DB)
                THEN ListAllUsers(users, connected, config.Filter, fault)
                ELSE ListDBUsers(users, connected, ValueString(config.DB), config.Filter, fault)
    IN  [state |-> Present([DB |-> config.DB, Filter |-> config.Filter,
                            Users |-> ConvertUserSlice(call.v)]),
         diag  |-> IF call.err # NoError THEN "Reading MongoDB users" ELSE "",
         err   |-> call.err]

DataIdle ==
    /\ dConfig = << >> /\ dUsers = << >> /\ dState = Absent /\ dDiag = ""
    /\ dErr = NoError /\ dOp = "idle"

DataStart ==
    /\ dConfig \in DataSourceConfigs /\ dUsers \in UserLists
    /\ dState = Absent /\ dDiag = "" /\ dErr = NoError /\ dOp = "none"

DataSourceRead ==
    /\ dOp = "none"
    /\ \E connected \in BOOLEAN : \E fault \in FaultsIf(connected) \ {[kind |-> "gone", ok |-> 1]} :
          LET r == UsersDataSourceRead(dConfig, dUsers, connected, fault)
          IN  dState' = r.state /\ dDiag' = r.diag /\ dErr' = r.err
    /\ dOp' = "Read"
    /\ UNCHANGED <<dConfig, dUsers, notDataVars>>

DataNext == DataSourceRead

(***************************************************************************)
(* Specification of the client: callers invoke operations on one Client,   *)
(* one after another or at the same time.  Every operation begins with     *)
(* c.connect, whose body runs under connectOnce.Do: the first caller runs  *)
(* it, a caller that arrives while it runs waits for it to return, and a   *)
(* later caller passes at once.                                            *)
(***************************************************************************)
NumCallers == 2

MaxCalls == 3

Callers == 1..NumCallers

\* Mutant: Do lets a caller pass while the first call of the body still runs.
DoReturnsEarly(o) == o # "fresh"

\* connectOnce.Do returns to a caller that did not run the body once the
\* body has returned.
DoReturns(o) == o = "done"

ClientIdle ==
    /\ connectOnce = "none" /\ client = "nil" /\ connectErr = "" /\ attempts = 0
    /\ calls = 0 /\ pc = << >> /\ arrived = << >> /\ seen = << >>

\* New(uri, cred): the fields are stored, nothing is connected.
New ==
    /\ connectOnce = "fresh" /\ client = "nil" /\ connectErr = "" /\ attempts = 0
    /\ calls = 0
    /\ pc = [p \in Callers |-> "idle"]
    /\ arrived = [p \in Callers |-> "never"]
    /\ seen = [p \in Callers |-> "unset"]

\* A caller invokes an operation (GetDBRole, CreateDBUser, ...).
Invoke(p) ==
    /\ pc[p] = "idle" /\ calls < MaxCalls
    /\ calls' = calls + 1
    /\ pc' = [pc EXCEPT ![p] = "connect"]
    /\ arrived' = [arrived EXCEPT ![p] = connectOnce]
    /\ UNCHANGED <<connectOnce, client, connectErr, attempts, seen, notClientVars>>

\* The first caller enters the body of connectOnce.Do.
DoBegin(p) ==
    /\ pc[p] = "connect" /\ connectOnce = "fresh"
    /\ connectOnce' = "running"
    /\ attempts' = attempts + 1
    /\ pc' = [pc EXCEPT ![p] = "dial"]
    /\ UNCHANGED <<client, connectErr, calls, arrived, seen, notClientVars>>

\* mongo.Connect fails (connectErr is set and the body returns) or succeeds.
MongoConnect(p) ==
    /\ pc[p] = "dial"
    /\ \E ok \in BOOLEAN :
          IF ok
          THEN /\ pc' = [pc EXCEPT ![p] = "ping"]
               /\ UNCHANGED <<connectOnce, connectErr>>
          ELSE /\ connectErr' = "connect: refused"
               /\ connectOnce' = "done"
               /\ pc' = [pc EXCEPT ![p] = "return"]
    /\ UNCHANGED <<client, attempts, calls, arrived, seen, notClientVars>>

\* client.Ping fails (connectErr is set) or succeeds (c.client is set).
Ping(p) ==
    /\ pc[p] = "ping"
    /\ \E ok \in BOOLEAN :
          IF ok
          THEN client' = "handle" /\ UNCHANGED connectErr
          ELSE connectErr' = "ping: unreachable" /\ UNCHANGED client
    /\ connectOnce' = "done"
    /\ pc' = [pc EXCEPT ![p] = "return"]
    /\ UNCHANGED <<attempts, calls, arrived, seen, notClientVars>>

\* A caller that did not run the body gets past connectOnce.Do.
DoPass(p) ==
    /\ pc[p] = "connect" /\ DoReturns(connectOnce)
    /\ pc' = [pc EXCEPT ![p] = "return"]
    /\ UNCHANGED <<connectOnce, client, connectErr, attempts, calls, arrived, seen, notClientVars>>

\* Mutant: the operation goes on to its command whatever c.connect returned.
ConnectReturnsUnchecked(p) ==
    /\ pc[p] = "return"
    /\ seen' = [seen EXCEPT ![p] = connectErr]
    /\ pc' = [pc EXCEPT ![p] = "run"]
    /\ UNCHANGED <<connectOnce, client, connectErr, attempts, calls, arrived, notClientVars>>

\* return c.connectErr, and the operation's `if err != nil { return }`.
ConnectReturns(p) ==
    /\ pc[p] = "return"
    /\ seen' = [seen EXCEPT ![p] = connectErr]
    /\ pc' = [pc EXCEPT ![p] = IF connectErr # "" THEN "idle" ELSE "run"]
    /\ UNCHANGED <<connectOnce, client, connectErr, attempts, calls, arrived, notClientVars>>

\* The operation runs its command on c.client and returns.
RunsCommand(p) ==
    /\ pc[p] = "run"
    /\ pc' = [pc EXCEPT ![p] = "idle"]
    /\ UNCHANGED <<connectOnce, client, connectErr, attempts, calls, arrived, seen, notClientVars>>

ClientNext ==
    \E p \in Callers :
        \/ Invoke(p) \/ DoBegin(p) \/ MongoConnect(p) \/ Ping(p)
        \/ DoPass(p) \/ ConnectReturns(p) \/ RunsCommand(p)

(***************************************************************************)
(* The specifications: each part of the program runs from its own initial  *)
(* states while the other parts rest.                                      *)
(***************************************************************************)
IdInit == IdStart /\ CodecIdle /\ MergeIdle /\ HandlerIdle /\ ClientIdle /\ PrivIdle /\ DataIdle

SpecIdentity == IdInit /\ [][IdNext]_vars

CodecInit == CodecStart /\ IdIdle /\ MergeIdle /\ HandlerIdle /\ ClientIdle /\ PrivIdle /\ DataIdle

SpecCodec == CodecInit /\ [][CodecNext]_vars

MergeInit == MergeStart /\ IdIdle /\ CodecIdle /\ HandlerIdle /\ ClientIdle /\ PrivIdle /\ DataIdle

SpecMerge == MergeInit /\ [][MergeNext]_vars

HandlerInit == HandlerStart /\ IdIdle /\ CodecIdle /\ MergeIdle /\ ClientIdle /\ PrivIdle /\ DataIdle

SpecResource == HandlerInit /\ [][HandlerNext]_vars

PrivInit == PrivStart /\ IdIdle /\ CodecIdle /\ MergeIdle /\ HandlerIdle /\ ClientIdle /\ DataIdle

SpecPrivilege == PrivInit /\ [][PrivNext]_vars

DataInit ==
    DataStart /\ IdIdle /\ CodecIdle /\ MergeIdle /\ HandlerIdle /\ ClientIdle /\ PrivIdle

SpecUsers == DataInit /\ [][DataNext]_vars

ClientInit == New /\ IdIdle /\ CodecIdle /\ MergeIdle /\ HandlerIdle /\ PrivIdle /\ DataIdle

SpecClient == ClientInit /\ [][ClientNext]_vars

(***************************************************************************)
(* Claims about the identity codec                                         *)
(***************************************************************************)
IdOnly == IsNull(idModel.Name) /\ IsNull(idModel.DB) /\ ~IsNull(idModel.ID)

IdText == ValueString(idModel.ID)

IdResolved == idResult.op # "none"

\* The (name, database) pairs whose format is the id text, as split positions.
IdSplits == {i \in 1..Len(IdText) : IdText[i] = Sep}

NameAt(i) == SubSeq(IdText, i + 1, Len(IdText))

DBAt(i) == SubSeq(IdText, 1, i - 1)

\* C3 as stated: for every non-empty database and every non-empty name
\* without '.', resolving a model that carries only id = format(name,
\* database) returns exactly (name, database).
C3_RoundTripAsStated ==
    (IdResolved /\ IdOnly) =>
        \A i \in IdSplits :
            (/\ Format(NameAt(i), DBAt(i)) = IdText
             /\ DBAt(i) # << >> /\ NameAt(i) # << >> /\ ~HasSep(NameAt(i)))
            => (idResult.err = "" /\ idResult.name = NameAt(i) /\ idResult.db = DBAt(i))

\* C3 amended: for every non-empty database without '.' and every non-empty
\* name without '.', resolving a model that carries only id = format(name,
\* database) returns exactly (name, database).
C3_RoundTrip ==
    (IdResolved /\ IdOnly) =>
        \A i \in IdSplits :
            (/\ Format(NameAt(i), DBAt(i)) = IdText
             /\ DBAt(i) # << >> /\ ~HasSep(DBAt(i))
             /\ NameAt(i) # << >> /\ ~HasSep(NameAt(i)))
            => (idResult.err = "" /\ idResult.name = NameAt(i) /\ idResult.db = DBAt(i))

C3_Witness ==
    /\ IdResolved /\ IdOnly
    /\ IdText = Format(<<"a", "b">>, <<"b">>)
    /\ idResult.name = <<"a", "b">> /\ idResult.db = <<"b">>

\* C4: when name and database are not both non-null and non-empty, resolve
\* fails with MissingIdentity if id is null or empty, and otherwise with
\* MalformedIdentity if id has no '.', starts with '.', or has nothing after
\* its first '.'; a failing resolve returns no (name, database) pair.
IdDirect ==
    /\ ~IsNull(idModel.Name) /\ ~IsNull(idModel.DB)
    /\ idModel.Name.v # << >> /\ idModel.DB.v # << >>

MissingIdentity == {"missing user ID", "missing role ID"}

MalformedIdentity ==
    {"malformed user ID, missing dot separator", "malformed role ID, missing dot separator",
     "malformed user ID, missing db", "malformed role ID, missing db",
     "malformed user ID, missing user", "malformed role ID, missing role"}

IdNothingAfterFirstSep ==
    /\ Len(IdText) > 0 /\ IdText[Len(IdText)] = Sep
    /\ \A j \in 1..(Len(IdText) - 1) : IdText[j] # Sep

C4_IdentityFailureModes ==
    (IdResolved /\ ~IdDirect) =>
        /\ (IsNull(idModel.ID) \/ IdText = << >>) => idResult.err \in MissingIdentity
        /\ (/\ ~IsNull(idModel.ID) /\ IdText # << >>
            /\ (IdSplits = {} \/ IdText[1] = Sep \/ IdNothingAfterFirstSep))
           => idResult.err \in MalformedIdentity
        /\ idResult.err # "" => (idResult.name = << >> /\ idResult.db = << >>)

C4_Witness ==
    /\ IdResolved /\ ~IdDirect
    /\ IdText = <<"a", Sep>>
    /\ idResult.err \in MalformedIdentity

(***************************************************************************)
(* Claims about the resource-union codec                                   *)
(***************************************************************************)
WasDecoded == phase = "decoded"

\* C5: for every value v of the four variants (flags false and empty
\* strings included), decode(encode(v)) = v.
C5_UnionRoundTrip ==
    (WasDecoded /\ wireSrc = "marshal") => (codecErr = "" /\ Union = sent)

C5_Witness ==
    /\ WasDecoded /\ wireSrc = "marshal"
    /\ sent = ResourceCollection(<< >>, << >>)
    /\ prevUnion = ResourceCluster(TRUE)
    /\ Union = sent

\* The discriminators in probing order, and the first one a document has.
Probe == <<"system_buckets", "anyResource", "cluster">>

ProbeType(f) == IF f = "system_buckets" THEN "string" ELSE "bool"

Probed(m) == {i \in 1..Len(Probe) : Probe[i] \in DOMAIN m}

FirstPresent(m) == Probe[CHOOSE i \in Probed(m) : \A j \in Probed(m) : i <= j]

VariantOf(f, value) ==
    CASE f = "system_buckets" -> ResourceSystemBuckets(value.s)
      [] f = "anyResource" -> ResourceAny(value.b)
      [] f = "cluster" -> ResourceCluster(value.b)

\* C6: decoding picks the variant of the first field present in the order
\* system_buckets, anyResource, cluster, whatever other fields the document
\* carries, and falls back to Collection only when none of the three is
\* present.
C6_DiscriminatorPriority ==
    (WasDecoded /\ wire.kind = "document") =>
        LET m == wire.doc IN
        /\ (Probed(m) # {} /\ m[FirstPresent(m)].t = ProbeType(FirstPresent(m)))
           => (codecErr = "" /\ Union = VariantOf(FirstPresent(m), m[FirstPresent(m)]))
        /\ (codecErr = "" /\ Union.type = "ResourceCollection") => Probed(m) = {}
        /\ (codecErr = "" /\ Probed(m) = {}) => Union.type = "ResourceCollection"

C6_Witness ==
    /\ WasDecoded /\ wire.kind = "document"
    /\ DOMAIN wire.doc = {"system_buckets", "cluster", "db"}
    /\ wire.doc["cluster"] = BsonBool(TRUE)
    /\ Union = ResourceSystemBuckets(<<"x">>)

\* C7: when the highest-priority discriminator present has the wrong
\* primitive type, decode fails with an error that names that field, no
\* lower-priority variant is decoded, and r.Union keeps its previous value.
InvalidFieldType(f) ==
    {"resource." \o f \o " must be " \o ProbeType(f) \o ", got " \o ty :
        ty \in {"string", "bool", "int32"}}

C7_TypeMismatch ==
    (WasDecoded /\ wire.kind = "document") =>
        LET m == wire.doc IN
        (Probed(m) # {} /\ m[FirstPresent(m)].t # ProbeType(FirstPresent(m)))
        => (codecErr \in InvalidFieldType(FirstPresent(m)) /\ Union = prevUnion)

C7_Witness ==
    /\ WasDecoded /\ wire.kind = "document"
    /\ DOMAIN wire.doc = {"cluster", "db", "collection"}
    /\ wire.doc["cluster"] = BsonString(<<"x">>)
    /\ wire.doc["db"].t = "string" /\ wire.doc["collection"].t = "string"
    /\ prevUnion = ResourceAny(TRUE)
    /\ Union = prevUnion
    /\ codecErr = "resource.cluster must be bool, got string"

(***************************************************************************)
(* Claims about the selective state merge                                  *)
(***************************************************************************)
Merged == mOutcome \in {"ok", "error", "panic"}

\* A string collection of the model shows the fetched strings.
ShowsStrings(attr, fetched) ==
    /\ ~attr.nil
    /\ DOMAIN attr.v = DOMAIN fetched
    /\ \A k \in DOMAIN fetched : attr.v[k] = StringValue(fetched[k])

\* A role list of the model lists the fetched roles, one reference each.
ShowsRoles(attr, fetched) ==
    /\ ~attr.nil
    /\ Len(attr.v) = Len(fetched)
    /\ \A i \in 1..Len(fetched) : attr.v[i].Role = StringValue(fetched[i].Role)

\* A resource of the model shows the fetched resource.
ShowsResource(m, resource) ==
    CASE resource.type = "ResourceCluster" ->
            m = [ResourceModelZero EXCEPT !.Cluster = BoolValue(resource.Cluster)]
      [] resource.type = "ResourceAny" ->
            m = [ResourceModelZero EXCEPT !.AnyResource = BoolValue(resource.AnyResource)]
      [] resource.type = "ResourceCollection" ->
            m = [ResourceModelZero EXCEPT !.DB = StringValue(resource.DB),
                                          !.Collection = StringValue(resource.Collection)]
      [] OTHER -> FALSE

ShowsPrivileges(attr, fetched) ==
    /\ ~attr.nil
    /\ Len(attr.v) = Len(fetched)
    /\ \A i \in 1..Len(fetched) :
          /\ ShowsResource(attr.v[i].Resource, fetched[i].Resource)
          /\ ShowsStrings(attr.v[i].Actions, fetched[i].Actions)

Refreshed(field) ==
    CASE field \in {"CustomData", "Mechanisms"} -> ShowsStrings(mData[field], mFetched[field])
      [] field = "Roles" -> ShowsRoles(mData.Roles, mFetched.Roles)
      [] field = "Privileges" -> ShowsPrivileges(mData.Privileges, mFetched.Privileges)

OptionalCollections ==
    IF mKind = "user" THEN {"CustomData", "Roles", "Mechanisms"} ELSE {"Roles", "Privileges"}

\* C1: when a fetched user or role is merged into prior state, each optional
\* collection (user: custom_data, roles, mechanisms; role: roles,
\* privileges) that was unset stays unset, and each that was non-null, an
\* empty one included, is refreshed to the fetched value.
C1_SelectiveMerge ==
    Merged =>
        \A field \in OptionalCollections :
            /\ mPrior[field].nil => mData[field].nil
            /\ ~mPrior[field].nil => Refreshed(field)

\* C2: when a non-null prior role-reference list is merged with the fetched
\* list, for every index i of the fetched list the merged reference has
\* role = fetched[i].role, and database unset if prior[i].database was
\* unset, otherwise database = fetched[i].database.
C2_ImplicitDatabase ==
    (Merged /\ ~mPrior.Roles.nil) =>
        /\ ShowsRoles(mData.Roles, mFetched.Roles)
        /\ \A i \in 1..Len(mFetched.Roles) :
              /\ i \in DOMAIN mPrior.Roles.v
              /\ IsNull(mPrior.Roles.v[i].DB) => IsNull(mData.Roles.v[i].DB)
              /\ ~IsNull(mPrior.Roles.v[i].DB)
                 => mData.Roles.v[i].DB = StringValue(mFetched.Roles[i].DB)

(***************************************************************************)
(* Claims about the handlers                                               *)
(***************************************************************************)
Reconciles == hOp' \in {"Create", "Read", "Update"}

\* C8: a Create, Read or Update of a user or a role that does not succeed
\* (the identity does not resolve, the connection, the mutating command or
\* the read-back fails, the merge returns an error or ends the process)
\* reports an error and leaves the persisted state exactly as it was.
C8_NoPartialState ==
    [][(Reconciles /\ hOutcome' # "ok") => (tfState' = tfState /\ hDiag' # "")]_vars

\* A Read whose one command succeeded and whose merge then failed on the
\* fetched privileges, with the state still in place.
C8_Witness ==
    /\ hKind = "role" /\ hOp = "Read" /\ hOutcome = "error"
    /\ Len(hCmds) = 1 /\ hCmds[1].cmd = "rolesInfo" /\ hCmds[1].resp = "ok"
    /\ tfState.present /\ ~tfState.e.Privileges.nil

Mutating ==
    IF hKind = "user"
    THEN [Create |-> "createUser", Update |-> "updateUser", Delete |-> "dropUser"]
    ELSE [Create |-> "createRole", Update |-> "updateRole", Delete |-> "dropRole"]

Info == IF hKind = "user" THEN "usersInfo" ELSE "rolesInfo"

\* The chain an operation may run, in full.
Chain ==
    CASE hOp \in {"Create", "Update"} -> <<Mutating[hOp], Info>>
      [] hOp = "Read" -> <<Info>>
      [] hOp = "Delete" -> <<Mutating[hOp]>>
      [] OTHER -> << >>

Acknowledged(i) == hCmds[i].resp = "ok"

\* C9: the commands of an operation are a prefix of its chain (the mutating
\* command then the info command for Create and Update, the info command
\* for Read, the drop command for Delete), each at most once; a command
\* follows another only if that one returned without error and with ok=1,
\* the chain stops at the first command that did not, and an operation that
\* succeeds has run its whole chain.  An operation whose identity does not
\* resolve or whose connection fails runs no command.
C9_CommandChain ==
    /\ Len(hCmds) <= Len(Chain) /\ Len(hCmds) <= 2
    /\ \A i \in 1..Len(hCmds) : hCmds[i].cmd = Chain[i]
    /\ \A i \in 1..Len(hCmds), j \in 1..Len(hCmds) : i # j => hCmds[i].cmd # hCmds[j].cmd
    /\ \A i \in 1..Len(hCmds) : i < Len(hCmds) => Acknowledged(i)
    /\ \A i \in 1..Len(hCmds) : (Acknowledged(i) /\ i < Len(Chain)) => Len(hCmds) > i
    /\ hOutcome = "ok" => Len(hCmds) = Len(Chain)
    /\ (hOp \in {"Create", "Read", "Update", "Delete"} /\ hCmds = << >>) => hOutcome = "error"

\* An Update whose mutating command was acknowledged and whose read-back
\* then failed: two commands, in order, and no third.
C9_Witness ==
    /\ hOp = "Update"
    /\ Len(hCmds) = 2 /\ hCmds[1].cmd = Mutating.Update /\ hCmds[2].cmd = Info
    /\ Acknowledged(1) /\ ~Acknowledged(2)

(***************************************************************************)
(* Claims about the client                                                 *)
(***************************************************************************)
PastConnect(p) == pc[p] = "run"

\* C10: on one Client the connect-and-ping sequence begins at most once,
\* and never before an operation is invoked; a caller runs its command only
\* after the sequence has finished (and c.client is set); every caller to
\* whom c.connect has returned has been given the one result of that
\* sequence.
C10_ConnectOnce ==
    /\ attempts <= 1
    /\ attempts > 0 => calls > 0
    /\ connectOnce = "fresh" => (attempts = 0 /\ client = "nil" /\ connectErr = "")
    /\ \A p \in Callers :
          PastConnect(p) => (connectOnce = "done" /\ client = "handle" /\ connectErr = "")
    /\ \A p \in Callers :
          seen[p] # "unset" => (connectOnce = "done" /\ seen[p] = connectErr)

\* Two callers at their commands, one of which arrived while the other was
\* connecting, after one connect-and-ping sequence.
C10_Witness ==
    /\ attempts = 1
    /\ \E p \in Callers, q \in Callers :
          /\ p # q /\ PastConnect(p) /\ PastConnect(q)
          /\ arrived[p] = "fresh" /\ arrived[q] = "running"

(***************************************************************************)
(* Claims about lookups and acknowledgements                               *)
(***************************************************************************)
Looks == hOp \in {"Create", "Read", "Update"}

LastCmd == hCmds[Len(hCmds)]

InfoRan == Len(hCmds) > 0 /\ LastCmd.cmd = Info

Principal == IF hKind = "user" THEN "user" ELSE "role"

\* The context a lookup's error is wrapped in on its way out of the client.
LookupContext ==
    CASE hOp = "Create" -> "get created " \o Principal \o ": "
      [] hOp = "Update" -> "get updated " \o Principal \o ": "
      [] OTHER -> ""

\* C11: the lookup of a Read, or the read-back of a Create or Update, ends
\* in an error that is NotFound exactly when its info command came back
\* without error, with ok=1 and with no entity; with an entity, the call
\* succeeds and that entity goes to the merge; the error of a read-back
\* carries the context of its operation and still is NotFound.
C11_NotFound ==
    Looks =>
        /\ ErrorsIs(hErr, ErrNotFound)
              <=> (InfoRan /\ LastCmd.resp = "ok" /\ LastCmd.items = 0)
        /\ (InfoRan /\ LastCmd.resp = "ok" /\ LastCmd.items > 0)
              => (hErr = NoError /\ hFetched = srv /\ srv.present)
        /\ ErrorsIs(hErr, ErrNotFound)
              => (hErr[1] = LookupContext \o ErrNotFound /\ hOutcome = "error")

\* The read-back of a Create found nothing: the entity was dropped between
\* the two commands.
C11_Witness ==
    /\ hOp = "Create" /\ Len(hCmds) = 2 /\ LastCmd.resp = "ok" /\ LastCmd.items = 0
    /\ ErrorsIs(hErr, ErrNotFound) /\ Len(hErr) = 2

NotOKMessage(ok) == ErrNotOK \o ": ok=" \o ToString(ok)

\* C12: whatever the command (createUser, updateUser, dropUser, usersInfo,
\* createRole, updateRole, dropRole, rolesInfo), a response whose ok is not
\* 1 is the last of its operation, the operation fails with an error that
\* is NotOK and whose message carries that ok value, and nothing of the
\* response, its entities included, is handed to the merge.
C12_NotAcknowledged ==
    \A i \in 1..Len(hCmds) :
        hCmds[i].resp = "notok" =>
            /\ i = Len(hCmds)
            /\ hOutcome = "error"
            /\ ErrorsIs(hErr, ErrNotOK)
            /\ ErrorsIs(hErr, NotOKMessage(hCmds[i].ok))
            /\ hFetched = Absent

\* The read-back of an Update came back with ok=2 and an entity in it.
C12_Witness ==
    /\ hOp = "Update" /\ Len(hCmds) = 2
    /\ LastCmd.cmd = Info /\ LastCmd.resp = "notok" /\ LastCmd.ok = 2 /\ LastCmd.items > 0
    /\ hFetched = Absent /\ ErrorsIs(hErr, ErrNotOK)

(***************************************************************************)
(* Claims about the state a successful operation persists                  *)
(***************************************************************************)
Succeeded(op) == hOp = op /\ hOutcome = "ok"

StateName == IF hKind = "user" THEN tfState.e.User ELSE tfState.e.Role

DataName == IF hKind = "user" THEN hData.e.User ELSE hData.e.Role

\* C13: after a successful Create, Read or Update the persisted id, name
\* and database are those of the fetched entity, whatever the request
\* carried in them; after a Create from a declared name and database the
\* id is database + "." + name.
C13_IdentityAuthoritative ==
    /\ (Looks /\ hOutcome = "ok") =>
          /\ tfState.present /\ hFetched.present
          /\ tfState.e.ID = StringValue(hFetched.e.ID)
          /\ StateName = StringValue(EntityName(hFetched.e))
          /\ tfState.e.DB = StringValue(hFetched.e.DB)
    /\ Succeeded("Create") =>
          ValueString(tfState.e.ID)
              = ValueString(hData.e.DB) \o <<".">> \o ValueString(DataName)

\* A Create whose plan had no id succeeded and persisted the entity's.
C13_Witness ==
    /\ Succeeded("Create") /\ IsNull(hData.e.ID)
    /\ tfState.e.ID = StringValue(Format(PrincipalName, DBName))

RanInFull ==
    /\ Len(hCmds) = Len(Chain)
    /\ \A i \in 1..Len(hCmds) : hCmds[i].cmd = Chain[i] /\ Acknowledged(i)

BareUserCreated ==
    /\ hKind = "user" /\ Succeeded("Create")
    /\ ~IsNull(hData.e.User) /\ ~IsNull(hData.e.DB)
    /\ hData.e.CustomData.nil /\ hData.e.Roles.nil

\* C14: a user created from a declared name and database, with custom_data
\* and roles not declared, has run createUser and then usersInfo, and its
\* persisted state has the id database + "." + name and has custom_data and
\* roles still unset, though the entity read back has both, empty.
C14_CreateWithoutOptionals ==
    BareUserCreated =>
        /\ RanInFull /\ hCmds[1].cmd = "createUser" /\ hCmds[2].cmd = "usersInfo"
        /\ tfState.present
        /\ ValueString(tfState.e.ID) = Format(ValueString(hData.e.User), ValueString(hData.e.DB))
        /\ tfState.e.CustomData.nil /\ tfState.e.Roles.nil
        /\ hFetched.present

\* Such a user was created and the server returned empty collections.
C14_Witness ==
    /\ BareUserCreated /\ tfState.e.CustomData.nil /\ tfState.e.Roles.nil
    /\ hFetched.e.CustomData = << >> /\ hFetched.e.Roles = << >>

\* The request carried a state that holds an id and nothing else.
ImportedData ==
    /\ hData.present /\ ~IsNull(hData.e.ID)
    /\ hData.e = IF hKind = "user" THEN ImportedUser(ValueString(hData.e.ID))
                 ELSE ImportedRole(ValueString(hData.e.ID))

ImportedId == ValueString(hData.e.ID)

OptionalsUnset ==
    IF hKind = "user"
    THEN tfState.e.CustomData.nil /\ tfState.e.Roles.nil /\ tfState.e.Mechanisms.nil
    ELSE tfState.e.Roles.nil /\ tfState.e.Privileges.nil

\* C15: a Read of a state imported by the id database + "." + name sends
\* its info command, if it gets that far, to that database for that name;
\* when it succeeds the state's id, name and database are the entity's and
\* every optional collection (roles, privileges, custom_data, mechanisms) is
\* still unset.
C15_ImportThenRead ==
    (hOp = "Read" /\ ImportedData) =>
        /\ \A i \in 1..Len(hCmds) :
              /\ hCmds[i].cmd = Info
              /\ Format(hCmds[i].target, hCmds[i].db) = ImportedId
              /\ ~HasSep(hCmds[i].db)
        /\ hOutcome = "ok" =>
              /\ tfState.e.ID = StringValue(hFetched.e.ID)
              /\ StateName = StringValue(EntityName(hFetched.e))
              /\ tfState.e.DB = StringValue(hFetched.e.DB)
              /\ ValueString(tfState.e.ID) = ImportedId
              /\ OptionalsUnset

\* An imported role was read: the entity has roles and privileges, the
\* state has none.
C15_Witness ==
    /\ hKind = "role" /\ Succeeded("Read") /\ ImportedData
    /\ tfState.e.Role = StringValue(PrincipalName) /\ tfState.e.DB = StringValue(DBName)
    /\ OptionalsUnset
    /\ Len(hFetched.e.Roles) > 0 /\ Len(hFetched.e.Privileges) > 0

(***************************************************************************)
(* Claims about the two paths of identity resolution                       *)
(***************************************************************************)
\* C16: a model whose name and database are both non-null and non-empty
\* resolves to exactly those two, without error, whether its id is null,
\* empty, malformed or the identity of another entity, and whether or not
\* the name or the database contains '.'.
C16_DirectPath ==
    (IdResolved /\ IdDirect) =>
        /\ idResult.err = ""
        /\ idResult.name = idModel.Name.v /\ idResult.db = idModel.DB.v

\* The name is ".", and the id is the identity of another entity.
C16_Witness ==
    /\ IdResolved /\ IdDirect
    /\ idModel.Name.v = <<Sep>> /\ idModel.DB.v = <<"a">>
    /\ IdText = Format(<<"b">>, <<"b">>)
    /\ idResult.name = <<Sep>> /\ idResult.db = <<"a">>

IdFirstSplit == CHOOSE i \in IdSplits : \A j \in IdSplits : i <= j

\* C17: on the id path, resolve succeeds exactly when the id has a '.', with
\* text before the first '.' and text after it; the database returned is
\* the text before the first '.', the name all the text after it, further
\* '.' included.
C17_FirstSeparatorSplit ==
    (IdResolved /\ ~IdDirect) =>
        /\ idResult.err = ""
              <=> (IdSplits # {} /\ DBAt(IdFirstSplit) # << >> /\ NameAt(IdFirstSplit) # << >>)
        /\ idResult.err = ""
              => (idResult.db = DBAt(IdFirstSplit) /\ idResult.name = NameAt(IdFirstSplit))

\* The id "a.b." gives the database "a" and the name "b.".
C17_Witness ==
    /\ IdResolved /\ ~IdDirect
    /\ IdText = <<"a", Sep, "b", Sep>>
    /\ idResult.err = "" /\ idResult.db = <<"a">> /\ idResult.name = <<"b", Sep>>

(***************************************************************************)
(* Claims about the role references of a command                           *)
(***************************************************************************)
\* The create and update commands of the last operation, by position.
Writes == {i \in 1..Len(hCmds) : hCmds[i].cmd \in {Mutating.Create, Mutating.Update}}

Declared == hData.e.Roles.v

DeclaredName(k) == BsonString(ValueString(Declared[k].Role))

DeclaredDB(k) == BsonString(ValueString(Declared[k].DB))

IndexOutOfRange == mOutcome = "panic"

\* C19: for every non-null prior role-reference list (an empty one
\* included) and every fetched role list, also one longer than the prior
\* list, the merge reads no prior element outside the prior list, completes,
\* and yields exactly one merged reference per fetched reference.
C19_BoundsSafety ==
    (Merged /\ ~mPrior.Roles.nil) =>
        /\ ~IndexOutOfRange
        /\ ~mData.Roles.nil
        /\ Len(mData.Roles.v) = Len(mFetched.Roles)

\* The reference the server reports for a declared one: the database of the
\* referencing principal where none was declared.
Reported(ref) ==
    [Role |-> ValueString(ref.Role),
     DB   |-> IF IsNull(ref.DB) THEN DBName ELSE ValueString(ref.DB)]

\* The fetched list holds the declared references, each once, in another
\* order than they were declared in.
Reordered ==
    /\ ~mPrior.Roles.nil
    /\ Len(mFetched.Roles) = Len(mPrior.Roles.v)
    /\ {mFetched.Roles[k] : k \in DOMAIN mFetched.Roles}
         = {Reported(mPrior.Roles.v[k]) : k \in DOMAIN mPrior.Roles.v}
    /\ Cardinality({mFetched.Roles[k] : k \in DOMAIN mFetched.Roles}) = Len(mFetched.Roles)
    /\ mFetched.Roles # [k \in DOMAIN mPrior.Roles.v |-> Reported(mPrior.Roles.v[k])]

\* The declaration of the role a fetched reference names.
DeclaredAs(role) ==
    CHOOSE ref \in {mPrior.Roles.v[k] : k \in DOMAIN mPrior.Roles.v} : Reported(ref) = role

\* C20: when the server returns the declared role references in a different
\* order, the merged list has the database unset exactly for the roles
\* declared without a database and keeps the explicit database of the roles
\* declared with one.
C20_NoDriftFromReordering ==
    (mOutcome = "ok" /\ Reordered) =>
        /\ ShowsRoles(mData.Roles, mFetched.Roles)
        /\ \A i \in 1..Len(mFetched.Roles) :
              mData.Roles.v[i].DB = DeclaredAs(mFetched.Roles[i]).DB

(***************************************************************************)
(* Claims about what an update leaves on the server                        *)
(***************************************************************************)
\* The collection fields the plan of the last operation declares.
DeclaredFields ==
    {f \in (IF hKind = "user" THEN {"CustomData", "Roles"} ELSE {"Roles", "Privileges"}) :
        ~hData.e[f].nil}

\* The content a declared field asks the server to hold.
Asked(f) ==
    CASE f = "CustomData" -> [k \in DOMAIN hData.e.CustomData.v |->
                                 ValueString(hData.e.CustomData.v[k])]
      [] f = "Roles" -> [k \in 1..Len(Declared) |->
                            [Role |-> ValueString(Declared[k].Role),
                             DB   |-> IF IsNull(Declared[k].DB) THEN ValueString(hData.e.DB)
                                      ELSE ValueString(Declared[k].DB)]]
      [] f = "Privileges" -> [k \in 1..Len(hData.e.Privileges.v) |->
                                 [Resource |-> toResource(hData.e.Privileges.v[k].Resource),
                                  Actions  |-> [a \in 1..Len(hData.e.Privileges.v[k].Actions.v) |->
                                                   ValueString(hData.e.Privileges.v[k].Actions.v[a])]]]

\* C21: after a successful Update of a user or a role, for every collection
\* the plan declares, an empty one included, the entity on the server holds
\* exactly the declared content and the persisted state shows the declared
\* collection.
C21_UpdateApplies ==
    Succeeded("Update") =>
        \A f \in DeclaredFields :
            /\ srv.present /\ srv.e[f] = Asked(f)
            /\ tfState.e[f] = hData.e[f]

(***************************************************************************)
(* Claims about repeated merges                                            *)
(***************************************************************************)
\* The fetched entity is merged into the state a successful merge left.
MergedAgain == mOutcome = "ok" /\ mMerges' = mMerges + 1

\* C22: merging the same fetched entity into the result of a successful
\* merge succeeds and changes nothing: merge(merge(s, e), e) = merge(s, e),
\* the unset optional fields and the unset databases of the role references
\* included.
C22_MergeIdempotent ==
    [][MergedAgain => (mOutcome' = "ok" /\ mData' = mData)]_vars

\* An imported-or-declared model with a reference declared without database
\* and an undeclared collection, merged twice.
C22_Witness ==
    /\ mMerges = 2 /\ mOutcome = "ok"
    /\ ~mData.Roles.nil /\ Len(mData.Roles.v) = 2
    /\ IsNull(mData.Roles.v[1].DB) /\ ~IsNull(mData.Roles.v[2].DB)
    /\ mKind = "user" /\ mData.CustomData.nil /\ ~mData.Mechanisms.nil

(***************************************************************************)
(* Claims about what a failed operation leaves on the server               *)
(***************************************************************************)
\* A Create or Update that reports failure.
WriteFails == hOp' \in {"Create", "Update"} /\ hOutcome' # "ok"

\* C23: whenever a Create or Update reports failure, the entity the database
\* holds afterwards, if any, is the one it held before the operation: a
\* failed Create leaves no user or role behind.
C23_NoPartialCommit ==
    [][WriteFails => (srv'.present => srv' = srv)]_vars

(***************************************************************************)
(* Claims about the privileges on their way                                *)
(***************************************************************************)
\* A declared privilege was converted for the command.
Converted == pStep = "sent"

\* C24: converting a declared privilege resource yields the variant whose
\* attribute group is set: Cluster whenever cluster is set (non-null),
\* AnyResource whenever any_resource is set (and cluster is not), and
\* Collection only when db and collection are set; a model with cluster or
\* any_resource set never becomes a Collection.
C24_VariantSelection ==
    Converted =>
        LET r == pModel.Resource
            u == pWire.Resource
        IN  /\ ~r.Cluster.null => u.type = "ResourceCluster"
            /\ (r.Cluster.null /\ ~r.AnyResource.null) => u.type = "ResourceAny"
            /\ u.type = "ResourceCollection" => (~r.DB.null /\ ~r.Collection.null)

\* A declared privilege that went to the server, came back as it was sent
\* and was converted into the model.
ReadBackMerged == pStep = "merged" /\ pModel # NoPrivilegeModel

\* C25: for every privilege resource model the schema validators accept,
\* when the server returns exactly the privilege that was sent, the merged
\* privilege resource equals the declared one attribute by attribute.
C25_NoPrivilegeDrift ==
    ReadBackMerged =>
        /\ pState.err = ""
        /\ \A attr \in {"Cluster", "AnyResource", "DB", "Collection"} :
              pState.v.Resource[attr] = pModel.Resource[attr]

\* A privilege the server returned was handed to the merge.
FetchedMerged == pStep = "merged"

\* C26: each resource variant that decode can produce (AnyResource, Cluster,
\* Collection, SystemBuckets) is converted into the privilege model without
\* error, the resource being that of its variant.
C26_EveryVariantConverts ==
    FetchedMerged =>
        /\ pState.err = ""
        /\ LET u == pWire.Resource
               m == pState.v.Resource
           IN  CASE u.type = "ResourceAny" -> m.AnyResource = BoolValue(u.AnyResource)
                 [] u.type = "ResourceCluster" -> m.Cluster = BoolValue(u.Cluster)
                 [] u.type = "ResourceCollection" ->
                        m.DB = StringValue(u.DB) /\ m.Collection = StringValue(u.Collection)
                 [] OTHER -> TRUE

(***************************************************************************)
(* Claims about a connection that failed                                   *)
(***************************************************************************)
ConnectFailed == connectErr # ""

\* Once the attempt has failed: it was the only one, the driver handle is
\* unset, and every caller to whom c.connect has returned got that error.
FailedForAll ==
    ConnectFailed =>
        /\ connectOnce = "done" /\ attempts = 1 /\ client = "nil"
        /\ \A p \in Callers : seen[p] \in {"unset", connectErr}

NoCommandWithoutHandle == \A p \in Callers : PastConnect(p) => client = "handle"

\* The failure stays: the error, the unset handle and the number of attempts
\* never change again.
FailureStays ==
    ConnectFailed => (connectErr' = connectErr /\ client' = client /\ attempts' = attempts)

\* C27: if the one connect-and-ping attempt of a Client fails, every later
\* operation on it returns that same connection error, the connection is
\* never attempted again, and no command is ever run while the driver handle
\* is unset.
C27_FailurePermanent ==
    [](FailedForAll /\ NoCommandWithoutHandle) /\ [][FailureStays]_vars

\* An operation invoked after the attempt had failed has returned the error
\* of the attempt.
C27_Witness ==
    /\ ConnectFailed /\ calls = MaxCalls
    /\ \E p \in Callers : arrived[p] = "done" /\ pc[p] = "idle" /\ seen[p] = connectErr

(***************************************************************************)
(* Claims about the fallback of the decoder                                *)
(***************************************************************************)
\* A document without any of the three discriminators was decoded.
FellBack == WasDecoded /\ wire.kind = "document" /\ Probed(wire.doc) = {}

\* The fields of a Collection the document carries with a value that is not
\* a string (a bool or an int32).
NotStrings == {f \in {"db", "collection"} \cap DOMAIN wire.doc : wire.doc[f].t # "string"}

TextOf(f) == IF f \in DOMAIN wire.doc THEN wire.doc[f].s ELSE << >>

ServerComputed == {"IsBuiltin", "InheritedRoles", "InheritedPrivileges", "UserID"}

IdentityFields == {"ID", "User", "Role", "DB"}

\* The optional collections the request carried non-null.
Refreshable ==
    {f \in {"CustomData", "Roles", "Mechanisms", "Privileges"} \cap DOMAIN hData.e :
        ~hData.e[f].nil}

\* C29: a successful Create, Read or Update changes, of what the request
\* carried, only id, name, database and the optional collections that were
\* non-null: password, timeouts and the unset collections are persisted as
\* they came; the state gets no field for isBuiltin, inheritedRoles,
\* inheritedPrivileges or userId, its role list is as long as the entity's
\* own role list (not the inherited one), and no create or update command
\* carries a server-computed field.
C29_Frame ==
    /\ (Looks /\ hOutcome = "ok") =>
          /\ DOMAIN tfState.e = DOMAIN hData.e
          /\ DOMAIN tfState.e \cap ServerComputed = {}
          /\ \A f \in DOMAIN hData.e \ (IdentityFields \cup Refreshable) :
                tfState.e[f] = hData.e[f]
          /\ ~tfState.e.Roles.nil => Len(tfState.e.Roles.v) = Len(hFetched.e.Roles)
    /\ \A i \in Writes : hCmds[i].carries \cap ServerComputed = {}

\* A user with a password and timeouts was updated and read back with its
\* userId; the state has the password, the timeouts and the role declared.
C29_Witness ==
    /\ hKind = "user" /\ Succeeded("Update") /\ Writes = {1}
    /\ hFetched.e.UserID = ServerUserID
    /\ tfState.e.Password = StringValue(<<"p">>)
    /\ tfState.e.Timeouts = DeclaredTimeouts
    /\ tfState.e.CustomData.nil /\ ~tfState.e.Roles.nil /\ Len(tfState.e.Roles.v) = 1

(***************************************************************************)
(* Claims about the users data source                                      *)
(***************************************************************************)
ListingFailed == dOp = "Read" /\ dErr # NoError

\* C30: when listing the users fails (connection error, command error or a
\* response that is not acknowledged) the Read of the data source reports
\* the error and sets no state: no users list, an empty one included, is
\* persisted for a failed listing.
C30_NoStateOnFailure ==
    ListingFailed => (dDiag # "" /\ ~dState.present)

====
